---- MODULE Spec2Model ----
(***************************************************************************)
(* Memoization and content-addressed storage engine of evening:            *)
(*   src/core/cache/memoize.ts  (hashArgs, inferMimeType, serializeData,   *)
(*                               the memoize decorator)                    *)
(*   src/core/cache/storage.ts  (hashContent, getExtensionFromMimeType,    *)
(*                               saveContent, loadContent, getContentInfo) *)
(*   src/core/cache/db.ts       (the calls and content tables)             *)
(*                                                                         *)
(* Text is a sequence of Unicode code points and a Buffer is a sequence of *)
(* bytes, so that Buffer.from, toString, JSON.stringify and the hex digest *)
(* are conversions the checks can tell apart from the identity.            *)
(* Every `await` of the source is a scheduling point: the code between two *)
(* awaits is one action of the process (the invocation) that runs it.      *)
(***************************************************************************)
EXTENDS Integers, Sequences, FiniteSets, TLC

\* ------------------------------------------------------------------ bounds
\* Concurrent invocations (async calls in flight at the same time).
NumProcs == 2
\* Calls started in one behaviour in which calls overlap.
MaxCalls == 2
\* Calls started in one behaviour of calls made one after the other.
MaxSeqCalls == 3
\* Readings of unixepoch() / performance.now() are 0..MaxClock.
MaxClock == 1

Procs == 1..NumProcs

\* ------------------------------------------------------- JavaScript values
\* A value is [type, val]; val is a sequence of integers whatever the type:
\*   number    <<n>>                      (a non-negative integer)
\*   string    the code points
\*   buffer    the bytes (a Node Buffer)
\*   object    <<k1, v1, k2, v2, ...>>    keys in insertion order, each key one
\*                                        code point, each value a number
\*   error     <<code>>                   a thrown Error
Num(n) == [type |-> "number", val |-> <<n>>]
Str(s) == [type |-> "string", val |-> s]
Buf(b) == [type |-> "buffer", val |-> b]
Obj(kv) == [type |-> "object", val |-> kv]
Undefined == [type |-> "undefined", val |-> <<>>]
BigInt(n) == [type |-> "bigint", val |-> <<n>>]
\* A `const` that has not been assigned yet.
Pending == [type |-> "pending", val |-> <<>>]

RECURSIVE Flatten(_)
\* The concatenation of a sequence of sequences.
Flatten(ss) == IF ss = <<>> THEN <<>> ELSE Head(ss) \o Flatten(Tail(ss))

RECURSIVE Join(_, _)
\* Array.prototype.join: the parts separated by sep.
Join(parts, sep) ==
  IF parts = <<>> THEN <<>>
  ELSE IF Len(parts) = 1 THEN parts[1]
  ELSE parts[1] \o sep \o Join(Tail(parts), sep)

\* Buffer.from(string): UTF-8, one byte below U+0080, two bytes below U+0800.
Utf8Char(c) ==
  IF c < 128 THEN <<c>> ELSE <<192 + (c \div 64), 128 + (c % 64)>>

Utf8Encode(s) == Flatten([i \in 1..Len(s) |-> Utf8Char(s[i])])

RECURSIVE Utf8Decode(_)
\* Buffer.prototype.toString(): the inverse of Utf8Encode on well-formed input;
\* a byte that starts no sequence decodes to U+FFFD.
Utf8Decode(b) ==
  IF b = <<>> THEN <<>>
  ELSE IF b[1] < 128 THEN <<b[1]>> \o Utf8Decode(Tail(b))
  ELSE IF b[1] >= 192 /\ b[1] < 224 /\ Len(b) >= 2 /\ b[2] >= 128 /\ b[2] < 192
       THEN <<(b[1] - 192) * 64 + (b[2] - 128)>> \o Utf8Decode(Tail(Tail(b)))
  ELSE <<65533>> \o Utf8Decode(Tail(b))

\* digest("hex"): two lower-case hexadecimal digits per byte.
HexDigit(d) == IF d < 10 THEN 48 + d ELSE 87 + d

HexEncode(b) == Flatten([i \in 1..Len(b) |-> <<HexDigit(b[i] \div 16), HexDigit(b[i] % 16)>>])

\* createHash("sha256").update(bytes).digest("hex").  SHA-256 is taken to be
\* collision free: the digest is an injective function of the bytes, written
\* in the digest's own alphabet (hexadecimal digits).
Sha256Hex(bytes) == HexEncode(bytes)

RECURSIVE Decimal(_)
\* Number.prototype.toString for a non-negative integer.
Decimal(n) == IF n < 10 THEN <<48 + n>> ELSE Decimal(n \div 10) \o <<48 + (n % 10)>>

\* JSON.stringify of a string: quoted, with " and \ escaped.
JsonQuote(s) ==
  <<34>> \o Flatten([i \in 1..Len(s) |->
                      IF s[i] = 34 \/ s[i] = 92 THEN <<92, s[i]>> ELSE <<s[i]>>]) \o <<34>>

\* A faulty variant of JsonStringify: the two keys of an object are written in sorted
\* order, whatever order they were inserted in.
JsonStringifySorted(v) ==
  CASE v.type = "number" -> Decimal(v.val[1])
    [] v.type = "string" -> JsonQuote(v.val)
    [] v.type = "object" ->
         LET kv == IF Len(v.val) = 4 /\ v.val[1] > v.val[3]
                   THEN <<v.val[3], v.val[4], v.val[1], v.val[2]>>
                   ELSE v.val
         IN <<123>> \o Join([i \in 1..(Len(kv) \div 2) |->
                               JsonQuote(<<kv[2 * i - 1]>>) \o <<58>> \o Decimal(kv[2 * i])],
                            <<44>>) \o <<125>>
    [] OTHER -> <<110, 117, 108, 108>>

\* JSON.stringify of one value.  Object keys are written in insertion order.
JsonStringify(v) ==
  CASE v.type = "number" -> Decimal(v.val[1])
    [] v.type = "string" -> JsonQuote(v.val)
    [] v.type = "object" ->
         <<123>> \o Join([i \in 1..(Len(v.val) \div 2) |->
                            JsonQuote(<<v.val[2 * i - 1]>>) \o <<58>> \o Decimal(v.val[2 * i])],
                         <<44>>) \o <<125>>
    [] OTHER -> <<110, 117, 108, 108>>

\* JSON.stringify(args) of the argument array.
JsonStringifyArgs(args) ==
  <<91>> \o Join([i \in 1..Len(args) |-> JsonStringify(args[i])], <<44>>) \o <<93>>

\* String.prototype.endsWith.
EndsWith(s, suffix) ==
  /\ Len(s) >= Len(suffix)
  /\ SubSeq(s, Len(s) - Len(suffix) + 1, Len(s)) = suffix

\* ------------------------------------------------- memoize.ts: pure helpers
IsDigit(c) == c >= 48 /\ c <= 57

\* Whether JSON.parse(s) returns rather than throws, for text without white
\* space, brackets, braces, signs, fractions and exponents (the text the
\* modelled operations return): a number, a string literal or a literal name.
JsonParses(s) ==
  \/ /\ Len(s) >= 1
     /\ \A i \in 1..Len(s) : IsDigit(s[i])
     /\ (Len(s) > 1 => s[1] # 48)
  \/ /\ Len(s) >= 2
     /\ s[1] = 34 /\ s[Len(s)] = 34
     /\ \A i \in 2..(Len(s) - 1) : s[i] # 34 /\ s[i] # 92
  \/ s \in {<<110, 117, 108, 108>>, <<116, 114, 117, 101>>, <<102, 97, 108, 115, 101>>}

RECURSIVE DigitsValue(_)
\* The number a run of decimal digits denotes.
DigitsValue(s) ==
  IF s = <<>> THEN 0 ELSE DigitsValue(SubSeq(s, 1, Len(s) - 1)) * 10 + (s[Len(s)] - 48)

\* JSON.parse of text JsonParses accepts (the literal names are not results of
\* the modelled operations and parse to undefined here).
JsonParse(s) ==
  IF s # <<>> /\ IsDigit(s[1]) THEN Num(DigitsValue(s))
  ELSE IF s # <<>> /\ s[1] = 34 THEN Str(SubSeq(s, 2, Len(s) - 1))
  ELSE Undefined

\* A faulty variant of hashArgs: the function name is left out of the hash.
hashArgsNoName(functionName, args) ==
  Sha256Hex(Utf8Encode(JsonStringifyArgs(args)))

\* hashArgs(functionName, args): sha256 of `${functionName}:${argsJson}`.
hashArgs(functionName, args) ==
  Sha256Hex(Utf8Encode(functionName \o <<58>> \o JsonStringifyArgs(args)))

\* inferMimeType(data).
inferMimeType(data) ==
  IF data.type = "buffer" THEN "application/octet-stream"
  ELSE IF data.type = "string"
       THEN (IF JsonParses(data.val) THEN "application/json" ELSE "text/plain")
  ELSE "application/json"

\* A faulty variant of serializeData: undefined is serialized as the text "null".
serializeDataAsNull(data) ==
  IF data.type = "buffer" \/ data.type = "string" THEN data
  ELSE Str(JsonStringify(data))

\* serializeData(data): a Buffer or a string is passed through, anything else
\* is JSON.stringify'd (to a string value); JSON.stringify(undefined) is
\* undefined.
serializeData(data) ==
  IF data.type = "buffer" \/ data.type = "string" THEN data
  ELSE IF data.type = "undefined" THEN Undefined
  ELSE Str(JsonStringify(data))

\* JSON.stringify(data) throws a TypeError for a BigInt.
SerializeThrows(data) == data.type = "bigint"

\* ------------------------------------------------- storage.ts: pure helpers
\* `typeof contentData === "string" ? Buffer.from(contentData) : contentData`
toBuffer(contentData) ==
  IF contentData.type = "string" THEN Utf8Encode(contentData.val) ELSE contentData.val

\* hashContent(content).
hashContent(contentData) == Sha256Hex(toBuffer(contentData))

\* getExtensionFromMimeType(mimeType).
getExtensionFromMimeType(mimeType) ==
  CASE mimeType = "application/json" -> "json"
    [] mimeType = "text/html" -> "html"
    [] mimeType = "text/plain" -> "txt"
    [] mimeType = "image/jpeg" -> "jpg"
    [] mimeType = "image/png" -> "png"
    [] mimeType = "image/gif" -> "gif"
    [] mimeType = "image/webp" -> "webp"
    [] mimeType = "video/mp4" -> "mp4"
    [] mimeType = "video/webm" -> "webm"
    [] OTHER -> "bin"

\* `scraped/${hash}.${ext}`: a path is kept as its three parts (the hash is
\* hexadecimal and the extension has no dot, so the parts determine the text).
FilePath(hash, ext) == [dir |-> "scraped", hash |-> hash, ext |-> ext]

\* ------------------------------------------------------ what the calls use
\* The decorated methods: memoize({provider, ignoreCache}) on propertyKey.
\*   "m".d and "m".e are memoized, "m".f is decorated with ignoreCache.
Methods ==
  { [provider |-> <<109>>, propertyKey |-> <<100>>, ignoreCache |-> FALSE],
    [provider |-> <<109>>, propertyKey |-> <<101>>, ignoreCache |-> FALSE],
    [provider |-> <<109>>, propertyKey |-> <<102>>, ignoreCache |-> TRUE] }

\* `${options.provider || "unknown"}.${propertyKey}`
functionNameOf(m) ==
  (IF m.provider = <<>> THEN <<117, 110, 107, 110, 111, 119, 110>> ELSE m.provider)
    \o <<46>> \o m.propertyKey

\* The argument arrays of the calls: [5].
ArgLists == { <<Num(5)>> }

\* The argument arrays where the fingerprint is looked at: [{a: 1, b: 2}] and
\* [{b: 2, a: 1}], one object built in two key orders.
KeyArgLists == { <<Obj(<<97, 1, 98, 2>>)>>, <<Obj(<<98, 2, 97, 1>>)>> }

\* What a wrapped operation may resolve to: 10, "10", Buffer("10"), "h\u00e9"
\* (two characters, three bytes).
\* The first three serialize to the same bytes; the operation is not assumed
\* to be deterministic.
OpResults == { Num(10), Str(<<49, 48>>), Buf(<<49, 48>>), Str(<<104, 233>>) }

\* What a wrapped operation may resolve to where serialization is looked at:
\* 10, undefined and 10n.
SerResults == { Num(10), Undefined, BigInt(10) }

\* What a wrapped operation may resolve to where the fingerprint is looked at:
\* 10 and "h\u00e9".
KeyResults == { Num(10), Str(<<104, 233>>) }

\* What a wrapped operation may resolve to where only the times are looked at.
RaceResults == { Num(10) }

\* What a wrapped operation may throw.
OpErrors == { [type |-> "error", val |-> <<500>>] }

\* Arguments of direct saveContent calls: ("10", "application/json") and
\* (Buffer("10"), "image/png"): the same bytes as text and as binary, under
\* two content types.
SaveInputs ==
  { [data |-> Str(<<49, 48>>), mimeType |-> "application/json"],
    [data |-> Buf(<<49, 48>>), mimeType |-> "image/png"] }

\* Every payload the model can store, and every content hash, with one hash
\* ("deadbeef") that no payload has.
Payloads ==
  { d \in { serializeData(r) : r \in { x \in OpResults \cup SerResults : ~SerializeThrows(x) } } :
      d.type \in {"string", "buffer"} }
    \cup { i.data : i \in SaveInputs }
Hashes == { hashContent(d) : d \in Payloads } \cup { <<100, 101, 97, 100, 98, 101, 101, 102>> }
Fingerprints ==
  { hashArgs(functionNameOf(m), a) : m \in Methods, a \in ArgLists \cup KeyArgLists }

\* ------------------------------------------------------------------- state
VARIABLES
  calls,      \* table calls (db.ts): a set of rows
  content,    \* table content (db.ts): a set of rows
  files,      \* files under ./data: a set of [path, bytes]
  clock,      \* the time unixepoch() and performance.now() read
  schema,     \* the database file: its tables and the migrations recorded
              \* as applied
  mode,       \* how the callers call: "overlap" (calls start while others are
              \* in flight), "seq" (each call is awaited before the next) or
              \* "ser" (as "overlap", the operations resolving to SerResults)
              \* or "key" (as "seq", the arguments being KeyArgLists and the
              \* operations resolving to KeyResults) or "race" (as "overlap",
              \* the operations resolving to RaceResults) or "stale" (as
              \* "seq", the operations resolving to RaceResults)
  pc,         \* per invocation in flight: the await it stands at
  inv,        \* per invocation in flight: its arguments and locals
  last,       \* history: the call that settled last, with its result
  nCalls,     \* history: calls started
  execs,      \* history: per fingerprint, wrapped operations that resolved
  missResult, \* history: per fingerprint, the result of the miss that upserted last
  saveStarted,  \* history: per content hash, saveContent calls that computed it
  saveReturned, \* history: per content hash, saveContent calls that returned it
  dl,         \* one call of downloadVideoWithYtDlp: its locals, its promise
              \* and the subprocess events so far
  scraper     \* one DOM-scraper instance (Reddit, Twitter): its fields, the
              \* interval timers that are running and its clear() calls

vars == <<calls, content, files, clock, mode, schema, dl, scraper, pc, inv, last, nCalls, execs, missResult,
          saveStarted, saveReturned>>

NoText == <<>>
NoRet == [status |-> "none", error |-> "none", val |-> Undefined]

\* Locals of an invocation that has not started.
FreshInv ==
  [ kind |-> "none", seq |-> 0,
    functionName |-> NoText, ignoreCache |-> FALSE, argsHash |-> NoText, argsJson |-> NoText,
    startTime |-> 0, hit |-> FALSE, cachedHash |-> NoText, opCalls |-> 0,
    result |-> Pending, fetchDuration |-> 0,
    data |-> Undefined, mimeType |-> "", hash |-> NoText, existing |-> FALSE,
    record |-> [dir |-> "", hash |-> NoText, ext |-> ""],
    ret |-> NoRet ]

\* The tables of the schema (db.ts).
AllTables == {"calls", "content"}

\* The migrations of ./drizzle, in journal order: 0000 creates both tables
\* with plain CREATE TABLE statements.
Migrations == { [idx |-> 0, creates |-> {"calls", "content"}] }

\* A new database file, and the database after the migrations ran.
NoSchema == [tables |-> {}, applied |-> {}]

MigratedSchema == [tables |-> AllTables, applied |-> { m.idx : m \in Migrations }]

\* A faulty variant of MigrateResult: every migration is run on every call.
MigrateResultWithoutJournal(s) ==
  IF \E m \in Migrations : m.creates \cap s.tables # {}
  THEN [ok |-> FALSE, schema |-> s]
  ELSE [ok |-> TRUE,
        schema |-> [tables |-> s.tables \cup UNION { m.creates : m \in Migrations },
                    applied |-> s.applied \cup { m.idx : m \in Migrations }]]

\* migrate(db, {migrationsFolder: "./drizzle"}) on schema s: the migrations not
\* yet recorded as applied run in one transaction and are recorded; a CREATE
\* TABLE of a table that exists fails and rolls the transaction back.
MigrateResult(s) ==
  LET pending == { m \in Migrations : m.idx \notin s.applied }
  IN IF \E m \in pending : m.creates \cap s.tables # {}
     THEN [ok |-> FALSE, schema |-> s]
     ELSE [ok |-> TRUE,
           schema |-> [tables |-> s.tables \cup UNION { m.creates : m \in pending },
                       applied |-> s.applied \cup { m.idx : m \in pending }]]

\* The memoization engine's part of the state.
coreVars == <<calls, content, files, clock, mode, schema, pc, inv, last, nCalls, execs, missResult,
              saveStarted, saveReturned>>

\* A promise that has not settled.
PendingPromise == [state |-> "pending", value |-> <<>>, reason |-> "none"]

\* downloadVideoWithYtDlp before it is called. chunks, totalSize, timer
\* (timeoutId is armed) and promise are the locals of the call; the other
\* fields record what the subprocess did: the stdout chunks that arrived,
\* whether the size limit was exceeded, the timeout fired, an error event was
\* emitted, the process was killed or closed and with which code, and how
\* many times the promise changed its state.
NoDownload ==
  [ st |-> "none", chunks |-> <<>>, totalSize |-> 0, timer |-> FALSE,
    promise |-> PendingPromise,
    arrived |-> <<>>, exceeded |-> FALSE, timedOut |-> FALSE, errored |-> FALSE,
    killed |-> FALSE, closed |-> FALSE, closeCode |-> Undefined, settles |-> 0 ]

\* A DOM-scraper object before its constructor ran: #timer is null (0) and
\* the map and the localforage store are empty. active is the set of interval
\* timers that are running, made the number of setInterval calls so far (the
\* handles are 1, 2, ...), scan the element a run of the polling callback
\* waits at (0: no run in flight), clearsStarted and clearsAwaiting count the
\* clear() calls made and those standing at `await this.#store.clear()`.
NewScraper ==
  [ constructed |-> FALSE, disposed |-> FALSE,
    timer |-> 0, active |-> {}, made |-> 0,
    cache |-> {}, store |-> {}, scan |-> 0,
    clearsStarted |-> 0, clearsAwaiting |-> 0 ]

\* No rows, no files, no call made yet.
NothingStored ==
  /\ calls = {}
  /\ content = {}
  /\ files = {}
  /\ clock = 0
  /\ pc = [p \in Procs |-> "idle"]
  /\ inv = [p \in Procs |-> FreshInv]
  /\ last = FreshInv
  /\ nCalls = 0
  /\ execs = [h \in Fingerprints |-> 0]
  /\ missResult = [h \in Fingerprints |-> Undefined]
  /\ saveStarted = [h \in Hashes |-> 0]
  /\ saveReturned = [h \in Hashes |-> 0]
  /\ dl = NoDownload
  /\ scraper = NewScraper

\* The store after initializeDatabase() on a new data directory.
EmptyStore == NothingStored /\ schema = MigratedSchema

\* A new database file, before initializeDatabase() was ever called.
InitFresh == NothingStored /\ schema = NoSchema /\ mode = "seq"

Init == EmptyStore /\ mode = "overlap"

InitSeq == EmptyStore /\ mode = "seq"

InitSer == EmptyStore /\ mode = "ser"

InitKey == EmptyStore /\ mode = "key"

InitRace == EmptyStore /\ mode = "race"

InitStale == EmptyStore /\ mode = "stale"

\* ----------------------------------------------------------------- tables
\* A faulty variant of SelectCalls: the lookup compares the wrong column.
SelectCallsByContentHash(h) == { r \in calls : r.contentHash = h }

\* db.select().from(callsTable).where(eq(argsHash, h)).get(): the rows found.
SelectCalls(h) == { r \in calls : r.argsHash = h }

\* db.select().from(contentTable).where(eq(hash, h)).get(): the rows found.
SelectContent(h) == { r \in content : r.hash = h }

\* Bun.file(path).exists()
FileExists(path) == \E f \in files : f.path = path

\* Bun.file(path).arrayBuffer()
FileBytes(path) == (CHOOSE f \in files : f.path = path).bytes

\* Bun.write(path, bytes): creates or replaces the file.
\* A faulty variant: a store that keeps only the file written last.
BunWriteTruncates(path, bytes) == { [path |-> path, bytes |-> bytes] }

BunWrite(path, bytes) == { f \in files : f.path # path } \cup { [path |-> path, bytes |-> bytes] }

\* A faulty variant of TouchCall: the hit also resets fetch_duration_ms.
TouchCallResetsDuration(h) ==
  { IF r.argsHash = h THEN [r EXCEPT !.lastAccessed = clock, !.fetchDurationMs = 0] ELSE r :
      r \in calls }

\* .update(calls).set({lastAccessed: unixepoch()}).where(argsHash = h)
TouchCall(h) ==
  { IF r.argsHash = h THEN [r EXCEPT !.lastAccessed = clock] ELSE r : r \in calls }

\* A faulty variant of UpsertCall: the row's content_hash is given the fingerprint.
UpsertCallSwapped(argsHash, functionName, argsJson, contentHash, fetchDuration) ==
  { r \in calls : r.argsHash # argsHash }
    \cup { [ argsHash |-> argsHash, functionName |-> functionName,
             argsJson |-> argsJson, contentHash |-> argsHash,
             createdAt |-> clock, lastAccessed |-> clock,
             fetchDurationMs |-> fetchDuration ] }

\* A faulty variant of UpsertCall: on a conflict the existing row is left as it is.
UpsertCallIgnores(argsHash, functionName, argsJson, contentHash, fetchDuration) ==
  IF SelectCalls(argsHash) = {}
  THEN calls \cup { [ argsHash |-> argsHash, functionName |-> functionName,
                      argsJson |-> argsJson, contentHash |-> contentHash,
                      createdAt |-> clock, lastAccessed |-> clock,
                      fetchDurationMs |-> fetchDuration ] }
  ELSE calls

\* A faulty variant of UpsertCall: a conflicting write adds a second row.
UpsertCallAppends(argsHash, functionName, argsJson, contentHash, fetchDuration) ==
  calls \cup { [ argsHash |-> argsHash, functionName |-> functionName,
                 argsJson |-> argsJson, contentHash |-> contentHash,
                 createdAt |-> clock, lastAccessed |-> clock,
                 fetchDurationMs |-> fetchDuration ] }

\* A faulty variant of UpsertCall: a conflicting write replaces the whole row (INSERT OR
\* REPLACE), created_at included.
UpsertCallReplaces(argsHash, functionName, argsJson, contentHash, fetchDuration) ==
  { r \in calls : r.argsHash # argsHash }
    \cup { [ argsHash |-> argsHash, functionName |-> functionName,
             argsJson |-> argsJson, contentHash |-> contentHash,
             createdAt |-> clock, lastAccessed |-> clock,
             fetchDurationMs |-> fetchDuration ] }

\* .insert(calls).values(row).onConflictDoUpdate({target: argsHash, set:
\* {contentHash, lastAccessed: unixepoch(), fetchDurationMs}}); createdAt and
\* lastAccessed of a new row are the column defaults, unixepoch().
UpsertCall(argsHash, functionName, argsJson, contentHash, fetchDuration) ==
  IF SelectCalls(argsHash) = {}
  THEN calls \cup { [ argsHash |-> argsHash, functionName |-> functionName,
                      argsJson |-> argsJson, contentHash |-> contentHash,
                      createdAt |-> clock, lastAccessed |-> clock,
                      fetchDurationMs |-> fetchDuration ] }
  ELSE { IF r.argsHash = argsHash
         THEN [r EXCEPT !.contentHash = contentHash, !.lastAccessed = clock,
                        !.fetchDurationMs = fetchDuration]
         ELSE r : r \in calls }

\* A faulty variant of IncrementReferenceCount: a duplicate save leaves the count alone.
KeepReferenceCount(h) == content

\* .update(content).set({referenceCount: referenceCount + 1}).where(hash = h)
IncrementReferenceCount(h) ==
  { IF r.hash = h THEN [r EXCEPT !.referenceCount = @ + 1] ELSE r : r \in content }

\* A faulty variant of NewContentRow: the recorded path always has the extension "bin",
\* whatever extension the file was written under.
NewContentRowBin(hash, mimeType, buffer) ==
  [ hash |-> hash, filePath |-> FilePath(hash, "bin"),
    sizeBytes |-> Len(buffer), mimeType |-> mimeType, referenceCount |-> 1 ]

\* A faulty variant of NewContentRow: size_bytes is the number of characters of the
\* text, not the number of bytes written.
NewContentRowCharCount(hash, mimeType, buffer) ==
  [ hash |-> hash, filePath |-> FilePath(hash, getExtensionFromMimeType(mimeType)),
    sizeBytes |-> Len(Utf8Decode(buffer)), mimeType |-> mimeType, referenceCount |-> 1 ]

\* A faulty variant of NewContentRow: reference_count is left to the column default, 0.
NewContentRowDefaultCount(hash, mimeType, buffer) ==
  [ hash |-> hash, filePath |-> FilePath(hash, getExtensionFromMimeType(mimeType)),
    sizeBytes |-> Len(buffer), mimeType |-> mimeType, referenceCount |-> 0 ]

\* The row .insert(content).values({...}) adds.
NewContentRow(hash, mimeType, buffer) ==
  [ hash |-> hash, filePath |-> FilePath(hash, getExtensionFromMimeType(mimeType)),
    sizeBytes |-> Len(buffer), mimeType |-> mimeType, referenceCount |-> 1 ]

\* `hash` is the primary key of content: the insert of a second row with the
\* same hash fails (SQLITE_CONSTRAINT_PRIMARYKEY) and the statement throws.
InsertContentConflicts(hash) == SelectContent(hash) # {}

\* A faulty variant of HitParses: every hit is parsed as JSON, raw bytes too.
HitParsesAlways(contentHash) == TRUE

\* What a hit returns for the bytes it loaded: JSON.parse(buffer.toString())
\* when cached.contentHash ends with ".json", else the Buffer itself.
HitParses(contentHash) == EndsWith(contentHash, <<46, 106, 115, 111, 110>>)

\* ---------------------------------------------------------------- calls
\* No invocation is in flight.
Quiet == \A q \in Procs : pc[q] = "idle"

\* Invocations in flight are anonymous: a call takes the first free slot.
CanStartInit(p) ==
  /\ pc[p] = "idle"
  /\ \A q \in Procs : q < p => pc[q] # "idle"
  /\ IF mode \in {"seq", "key", "stale"} THEN Quiet /\ nCalls < MaxSeqCalls ELSE nCalls < MaxCalls

CanStart(p) == CanStartInit(p) /\ schema.tables = AllTables

\* The invocation settles: its promise resolves (status "ok") or rejects.
Settle(p, status, error, val) ==
  /\ pc' = [pc EXCEPT ![p] = "idle"]
  /\ inv' = [inv EXCEPT ![p] = FreshInv]
  /\ last' = [inv[p] EXCEPT !.ret = [status |-> status, error |-> error, val |-> val]]

\* --------------------------------------------------- the memoized method
\* A faulty variant of Invoke (single-flight): an invocation that finds another one in
\* flight with its fingerprint does not go to the wrapped operation.
InvokeCoalesces(p, m, a) ==
  /\ CanStart(p)
  /\ LET fn == functionNameOf(m)
         h == hashArgs(fn, a)
         cached == IF m.ignoreCache THEN {} ELSE SelectCalls(h)
         joined == \E q \in Procs : pc[q] # "idle" /\ inv[q].argsHash = h
     IN /\ inv' = [inv EXCEPT ![p] =
                     [FreshInv EXCEPT !.kind = "memo", !.seq = nCalls + 1,
                        !.functionName = fn, !.ignoreCache = m.ignoreCache,
                        !.argsHash = h, !.argsJson = JsonStringifyArgs(a),
                        !.startTime = clock, !.hit = (cached # {} \/ joined),
                        !.opCalls = IF cached = {} /\ ~joined THEN 1 ELSE 0,
                        !.cachedHash = IF cached = {} THEN NoText
                                       ELSE (CHOOSE r \in cached : TRUE).contentHash]]
        /\ pc' = [pc EXCEPT ![p] = IF cached = {} /\ ~joined THEN "exec" ELSE "hitUpdate"]
  /\ nCalls' = nCalls + 1
  /\ UNCHANGED <<calls, content, files, clock, mode, schema, dl, scraper, last, execs, missResult,
                 saveStarted, saveReturned>>

\* The argument arrays the methods are called with.
Args == IF mode = "key" THEN KeyArgLists ELSE ArgLists

\* A faulty variant of Invoke: the calls row is looked up whatever the
\* ignoreCache option says.
InvokeIgnoresOption(p, m, a) ==
  /\ CanStart(p)
  /\ LET fn == functionNameOf(m)
         h == hashArgs(fn, a)
         cached == SelectCalls(h)
     IN /\ inv' = [inv EXCEPT ![p] =
                     [FreshInv EXCEPT !.kind = "memo", !.seq = nCalls + 1,
                        !.functionName = fn, !.ignoreCache = m.ignoreCache,
                        !.argsHash = h, !.argsJson = JsonStringifyArgs(a),
                        !.startTime = clock, !.hit = (cached # {}),
                        !.opCalls = IF cached = {} THEN 1 ELSE 0,
                        !.cachedHash = IF cached = {} THEN NoText
                                       ELSE (CHOOSE r \in cached : TRUE).contentHash]]
        /\ pc' = [pc EXCEPT ![p] = IF cached = {} THEN "exec" ELSE "hitUpdate"]
  /\ nCalls' = nCalls + 1
  /\ UNCHANGED <<calls, content, files, clock, mode, schema, dl, scraper, last, execs, missResult,
                 saveStarted, saveReturned>>

\* A faulty variant of Invoke: the snapshot kept for the row is the text of the
\* first argument, not the text of the argument array that was hashed.
InvokeSnapshotsFirstArg(p, m, a) ==
  /\ CanStart(p)
  /\ LET fn == functionNameOf(m)
         h == hashArgs(fn, a)
         cached == IF m.ignoreCache THEN {} ELSE SelectCalls(h)
     IN /\ inv' = [inv EXCEPT ![p] =
                     [FreshInv EXCEPT !.kind = "memo", !.seq = nCalls + 1,
                        !.functionName = fn, !.ignoreCache = m.ignoreCache,
                        !.argsHash = h, !.argsJson = JsonStringify(a[1]),
                        !.startTime = clock, !.hit = (cached # {}),
                        !.opCalls = IF cached = {} THEN 1 ELSE 0,
                        !.cachedHash = IF cached = {} THEN NoText
                                       ELSE (CHOOSE r \in cached : TRUE).contentHash]]
        /\ pc' = [pc EXCEPT ![p] = IF cached = {} THEN "exec" ELSE "hitUpdate"]
  /\ nCalls' = nCalls + 1
  /\ UNCHANGED <<calls, content, files, clock, mode, schema, dl, scraper, last, execs, missResult,
                 saveStarted, saveReturned>>

\* descriptor.value(...args) up to its first await: the fingerprint, and the
\* lookup of the calls row unless ignoreCache is set.
Invoke(p, m, a) ==
  /\ CanStart(p)
  /\ LET fn == functionNameOf(m)
         h == hashArgs(fn, a)
         cached == IF m.ignoreCache THEN {} ELSE SelectCalls(h)
     IN /\ inv' = [inv EXCEPT ![p] =
                     [FreshInv EXCEPT !.kind = "memo", !.seq = nCalls + 1,
                        !.functionName = fn, !.ignoreCache = m.ignoreCache,
                        !.argsHash = h, !.argsJson = JsonStringifyArgs(a),
                        !.startTime = clock, !.hit = (cached # {}),
                        !.opCalls = IF cached = {} THEN 1 ELSE 0,
                        !.cachedHash = IF cached = {} THEN NoText
                                       ELSE (CHOOSE r \in cached : TRUE).contentHash]]
        /\ pc' = [pc EXCEPT ![p] = IF cached = {} THEN "exec" ELSE "hitUpdate"]
  /\ nCalls' = nCalls + 1
  /\ UNCHANGED <<calls, content, files, clock, mode, schema, dl, scraper, last, execs, missResult,
                 saveStarted, saveReturned>>

\* A faulty variant of HitUpdate: the content is loaded without last_accessed
\* having been refreshed.
HitUpdateSkipped(p) ==
  /\ pc[p] = "hitUpdate"
  /\ inv' = [inv EXCEPT ![p].hash = inv[p].cachedHash]
  /\ pc' = [pc EXCEPT ![p] = "loadSelect"]
  /\ UNCHANGED <<calls, content, files, clock, mode, schema, dl, scraper, last, nCalls, execs,
                 missResult, saveStarted, saveReturned>>

\* Hit: last_accessed is refreshed, then loadContent(cached.contentHash) starts.
HitUpdate(p) ==
  /\ pc[p] = "hitUpdate"
  /\ calls' = TouchCall(inv[p].argsHash)
  /\ inv' = [inv EXCEPT ![p].hash = inv[p].cachedHash]
  /\ pc' = [pc EXCEPT ![p] = "loadSelect"]
  /\ UNCHANGED <<content, files, clock, mode, schema, dl, scraper, last, nCalls, execs, missResult,
                 saveStarted, saveReturned>>

\* What the wrapped operations resolve to.
Results ==
  IF mode = "ser" THEN SerResults
  ELSE IF mode = "key" THEN KeyResults
  ELSE IF mode \in {"race", "stale"} THEN RaceResults
  ELSE OpResults

\* Miss: the wrapped operation resolves with r.  The duration is measured, the
\* result serialized and its content type inferred; saveContent starts.  When
\* JSON.stringify throws, the invocation rejects with its TypeError.
ExecResolve(p, r) ==
  /\ pc[p] = "exec"
  /\ execs' = [execs EXCEPT ![inv[p].argsHash] = @ + 1]
  /\ IF SerializeThrows(r)
     THEN /\ pc' = [pc EXCEPT ![p] = "idle"]
          /\ inv' = [inv EXCEPT ![p] = FreshInv]
          /\ last' = [inv[p] EXCEPT !.result = r,
                                    !.fetchDuration = clock - inv[p].startTime,
                                    !.ret = [status |-> "threw", error |-> "TypeError",
                                             val |-> Undefined]]
     ELSE /\ inv' = [inv EXCEPT ![p].result = r,
                                ![p].fetchDuration = clock - inv[p].startTime,
                                ![p].data = serializeData(r),
                                ![p].mimeType = inferMimeType(r)]
          /\ pc' = [pc EXCEPT ![p] = "saveSelect"]
          /\ UNCHANGED last
  /\ UNCHANGED <<calls, content, files, clock, mode, schema, dl, scraper, nCalls, missResult,
                 saveStarted, saveReturned>>

\* A faulty variant of ExecReject: the failure is cached (a calls row is written for it).
ExecRejectCaches(p, e) ==
  /\ pc[p] = "exec"
  /\ calls' = calls \cup { [ argsHash |-> inv[p].argsHash,
                             functionName |-> inv[p].functionName,
                             argsJson |-> inv[p].argsJson, contentHash |-> NoText,
                             createdAt |-> clock, lastAccessed |-> clock,
                             fetchDurationMs |-> 0 ] }
  /\ Settle(p, "threw", "OperationError", e)
  /\ UNCHANGED <<content, files, clock, mode, schema, dl, scraper, nCalls, execs, missResult,
                 saveStarted, saveReturned>>

\* Miss: the wrapped operation throws e; the rejection is the caller's.
\* A faulty variant of ExecReject: the wrapped operation is called again when
\* it rejects.
ExecRejectRetries(p, e) ==
  /\ pc[p] = "exec"
  /\ IF inv[p].opCalls < 2
     THEN /\ inv' = [inv EXCEPT ![p].opCalls = @ + 1]
          /\ UNCHANGED <<pc, last>>
     ELSE Settle(p, "threw", "OperationError", e)
  /\ UNCHANGED <<calls, content, files, clock, mode, schema, dl, scraper, nCalls, execs, missResult,
                 saveStarted, saveReturned>>

ExecReject(p, e) ==
  /\ pc[p] = "exec"
  /\ Settle(p, "threw", "OperationError", e)
  /\ UNCHANGED <<calls, content, files, clock, mode, schema, dl, scraper, nCalls, execs, missResult,
                 saveStarted, saveReturned>>

\* A faulty variant of Upsert: the caller is given the stored bytes (the
\* serialized result as a Buffer) rather than the live result.
UpsertReturnsStored(p) ==
  /\ pc[p] = "upsert"
  /\ calls' = UpsertCall(inv[p].argsHash, inv[p].functionName, inv[p].argsJson,
                         inv[p].hash, inv[p].fetchDuration)
  /\ missResult' = [missResult EXCEPT ![inv[p].argsHash] = inv[p].result]
  /\ Settle(p, "ok", "none", Buf(toBuffer(inv[p].data)))
  /\ UNCHANGED <<content, files, clock, mode, schema, dl, scraper, nCalls, execs, saveStarted, saveReturned>>

\* Miss, after saveContent returned contentHash: the upsert of the calls row,
\* and the live result is returned.
Upsert(p) ==
  /\ pc[p] = "upsert"
  /\ calls' = UpsertCall(inv[p].argsHash, inv[p].functionName, inv[p].argsJson,
                         inv[p].hash, inv[p].fetchDuration)
  /\ missResult' = [missResult EXCEPT ![inv[p].argsHash] = inv[p].result]
  /\ Settle(p, "ok", "none", inv[p].result)
  /\ UNCHANGED <<content, files, clock, mode, schema, dl, scraper, nCalls, execs, saveStarted, saveReturned>>

\* ------------------------------------------------------------ saveContent
\* A direct call saveContent(contentData, mimeType).
StartSave(p, d, mimeType) ==
  /\ CanStart(p)
  /\ inv' = [inv EXCEPT ![p] = [FreshInv EXCEPT !.kind = "save", !.seq = nCalls + 1,
                                                !.data = d, !.mimeType = mimeType]]
  /\ pc' = [pc EXCEPT ![p] = "saveSelect"]
  /\ nCalls' = nCalls + 1
  /\ UNCHANGED <<calls, content, files, clock, mode, schema, dl, scraper, last, execs, missResult,
                 saveStarted, saveReturned>>

\* saveContent returns hash to its caller: to the memoized method, which goes
\* on to its upsert, or to the direct caller.
SaveReturns(p) ==
  IF inv[p].kind = "memo"
  THEN pc' = [pc EXCEPT ![p] = "upsert"] /\ UNCHANGED <<inv, last>>
  ELSE Settle(p, "ok", "none", Str(inv[p].hash))

\* ensureScrapedDir(), the hash of the bytes, and the select of the content
\* row with that hash.  createHash("sha256").update(buffer) throws a TypeError
\* when contentData is neither a string nor a Buffer.
SaveSelect(p) ==
  /\ pc[p] = "saveSelect"
  /\ IF inv[p].data.type \notin {"string", "buffer"}
     THEN /\ Settle(p, "threw", "TypeError", Undefined)
          /\ UNCHANGED saveStarted
     ELSE LET hash == hashContent(inv[p].data)
              existing == SelectContent(hash) # {}
          IN /\ inv' = [inv EXCEPT ![p].hash = hash, ![p].existing = existing]
             /\ pc' = [pc EXCEPT ![p] = IF existing THEN "saveUpdate" ELSE "saveWrite"]
             /\ saveStarted' = [saveStarted EXCEPT ![hash] = @ + 1]
             /\ UNCHANGED last
  /\ UNCHANGED <<calls, content, files, clock, mode, schema, dl, scraper, nCalls, execs, missResult,
                 saveReturned>>

\* A faulty variant of SaveUpdate: the duplicate branch writes the bytes again,
\* under the extension of its own content type.
SaveUpdateRewrites(p) ==
  /\ pc[p] = "saveUpdate"
  /\ content' = IncrementReferenceCount(inv[p].hash)
  /\ files' = BunWrite(FilePath(inv[p].hash, getExtensionFromMimeType(inv[p].mimeType)),
                       toBuffer(inv[p].data))
  /\ saveReturned' = [saveReturned EXCEPT ![inv[p].hash] = @ + 1]
  /\ SaveReturns(p)
  /\ UNCHANGED <<calls, clock, mode, schema, dl, scraper, nCalls, execs, missResult, saveStarted>>

\* `if (existing)`: reference_count + 1, and the hash is returned.
SaveUpdate(p) ==
  /\ pc[p] = "saveUpdate"
  /\ content' = IncrementReferenceCount(inv[p].hash)
  /\ saveReturned' = [saveReturned EXCEPT ![inv[p].hash] = @ + 1]
  /\ SaveReturns(p)
  /\ UNCHANGED <<calls, files, clock, mode, schema, dl, scraper, nCalls, execs, missResult, saveStarted>>

\* A faulty variant of SaveWrite: the row is inserted without the file having
\* been written.
SaveWriteSkipped(p) ==
  /\ pc[p] = "saveWrite"
  /\ pc' = [pc EXCEPT ![p] = "saveInsert"]
  /\ UNCHANGED <<calls, content, files, clock, mode, schema, dl, scraper, inv, last, nCalls, execs,
                 missResult, saveStarted, saveReturned>>

\* No row was found: Bun.write(fullPath, buffer).
SaveWrite(p) ==
  /\ pc[p] = "saveWrite"
  /\ files' = BunWrite(FilePath(inv[p].hash, getExtensionFromMimeType(inv[p].mimeType)),
                       toBuffer(inv[p].data))
  /\ pc' = [pc EXCEPT ![p] = "saveInsert"]
  /\ UNCHANGED <<calls, content, clock, mode, schema, dl, scraper, inv, last, nCalls, execs, missResult,
                 saveStarted, saveReturned>>

\* A faulty variant of SaveInsert: the hash is returned without the content row.
SaveInsertSkipsRow(p) ==
  /\ pc[p] = "saveInsert"
  /\ saveReturned' = [saveReturned EXCEPT ![inv[p].hash] = @ + 1]
  /\ SaveReturns(p)
  /\ UNCHANGED <<calls, content, files, clock, mode, schema, dl, scraper, nCalls, execs, missResult, saveStarted>>

\* The insert of the content row with reference_count 1; it throws when a row
\* with the hash was inserted since the select.
SaveInsert(p) ==
  /\ pc[p] = "saveInsert"
  /\ IF InsertContentConflicts(inv[p].hash)
     THEN /\ Settle(p, "threw", "StoreError", Undefined)
          /\ UNCHANGED <<content, saveReturned>>
     ELSE /\ content' = content \cup
                { NewContentRow(inv[p].hash, inv[p].mimeType, toBuffer(inv[p].data)) }
          /\ saveReturned' = [saveReturned EXCEPT ![inv[p].hash] = @ + 1]
          /\ SaveReturns(p)
  /\ UNCHANGED <<calls, files, clock, mode, schema, dl, scraper, nCalls, execs, missResult, saveStarted>>

\* ------------------------------------------------------------ loadContent
\* A direct call loadContent(hash).
StartLoad(p, h) ==
  /\ CanStart(p)
  /\ inv' = [inv EXCEPT ![p] = [FreshInv EXCEPT !.kind = "load", !.seq = nCalls + 1,
                                                !.hash = h]]
  /\ pc' = [pc EXCEPT ![p] = "loadSelect"]
  /\ nCalls' = nCalls + 1
  /\ UNCHANGED <<calls, content, files, clock, mode, schema, dl, scraper, last, execs, missResult,
                 saveStarted, saveReturned>>

\* A faulty variant of LoadSelect: a hash without a content row loads as no bytes.
LoadSelectReturnsEmpty(p) ==
  /\ pc[p] = "loadSelect"
  /\ LET rows == SelectContent(inv[p].hash)
     IN IF rows = {}
        THEN Settle(p, "ok", "none", Buf(<<>>))
        ELSE /\ inv' = [inv EXCEPT ![p].record = (CHOOSE r \in rows : TRUE).filePath]
             /\ pc' = [pc EXCEPT ![p] = "loadExists"]
             /\ UNCHANGED last
  /\ UNCHANGED <<calls, content, files, clock, mode, schema, dl, scraper, nCalls, execs, missResult,
                 saveStarted, saveReturned>>

\* The select of the content row; `throw new Error("Content not found")`.
LoadSelect(p) ==
  /\ pc[p] = "loadSelect"
  /\ LET rows == SelectContent(inv[p].hash)
     IN IF rows = {}
        THEN Settle(p, "threw", "ContentNotFound", Undefined)
        ELSE /\ inv' = [inv EXCEPT ![p].record = (CHOOSE r \in rows : TRUE).filePath]
             /\ pc' = [pc EXCEPT ![p] = "loadExists"]
             /\ UNCHANGED last
  /\ UNCHANGED <<calls, content, files, clock, mode, schema, dl, scraper, nCalls, execs, missResult,
                 saveStarted, saveReturned>>

\* A faulty variant of LoadExists: a missing file loads as no bytes.
LoadExistsReturnsEmpty(p) ==
  /\ pc[p] = "loadExists"
  /\ IF FileExists(inv[p].record)
     THEN pc' = [pc EXCEPT ![p] = "loadRead"] /\ UNCHANGED <<inv, last>>
     ELSE Settle(p, "ok", "none", Buf(<<>>))
  /\ UNCHANGED <<calls, content, files, clock, mode, schema, dl, scraper, nCalls, execs, missResult,
                 saveStarted, saveReturned>>

\* A faulty variant of LoadExists: a hit whose file is missing goes back to the wrapped
\* operation.
LoadExistsRefetches(p) ==
  /\ pc[p] = "loadExists"
  /\ IF FileExists(inv[p].record)
     THEN pc' = [pc EXCEPT ![p] = "loadRead"] /\ UNCHANGED <<inv, last>>
     ELSE IF inv[p].kind = "memo"
          THEN pc' = [pc EXCEPT ![p] = "exec"] /\ UNCHANGED <<inv, last>>
          ELSE Settle(p, "threw", "ContentMissing", Undefined)
  /\ UNCHANGED <<calls, content, files, clock, mode, schema, dl, scraper, nCalls, execs, missResult,
                 saveStarted, saveReturned>>

\* file.exists(); `throw new Error("Content file missing")`.
LoadExists(p) ==
  /\ pc[p] = "loadExists"
  /\ IF FileExists(inv[p].record)
     THEN pc' = [pc EXCEPT ![p] = "loadRead"] /\ UNCHANGED <<inv, last>>
     ELSE Settle(p, "threw", "ContentMissing", Undefined)
  /\ UNCHANGED <<calls, content, files, clock, mode, schema, dl, scraper, nCalls, execs, missResult,
                 saveStarted, saveReturned>>

\* What the caller of loadContent gets for the bytes read: the memoized method
\* on a hit rehydrates them, a direct caller gets the Buffer.
Loaded(p, bytes) ==
  IF inv[p].kind = "memo" /\ HitParses(inv[p].cachedHash)
  THEN (IF JsonParses(Utf8Decode(bytes))
        THEN Settle(p, "ok", "none", JsonParse(Utf8Decode(bytes)))
        ELSE Settle(p, "threw", "SyntaxError", Undefined))
  ELSE Settle(p, "ok", "none", Buf(bytes))

\* Buffer.from(await file.arrayBuffer()), and the return to the caller.
LoadRead(p) ==
  /\ pc[p] = "loadRead"
  /\ IF FileExists(inv[p].record)
     THEN Loaded(p, FileBytes(inv[p].record))
     ELSE Settle(p, "threw", "ENOENT", Undefined)
  /\ UNCHANGED <<calls, content, files, clock, mode, schema, dl, scraper, nCalls, execs, missResult,
                 saveStarted, saveReturned>>

\* A write to the calls table rejects (the database is locked, the disk is
\* full): neither await is inside a try, so the invocation rejects with it.
LedgerFails(p) ==
  /\ pc[p] \in {"hitUpdate", "upsert"}
  /\ Settle(p, "threw", "LedgerError", Undefined)
  /\ UNCHANGED <<calls, content, files, clock, mode, schema, dl, scraper, nCalls, execs, missResult,
                 saveStarted, saveReturned>>

\* ----------------------------------------------------- initializeDatabase
\* A call initializeDatabase().
StartInit(p) ==
  /\ CanStartInit(p)
  /\ inv' = [inv EXCEPT ![p] = [FreshInv EXCEPT !.kind = "init", !.seq = nCalls + 1]]
  /\ pc' = [pc EXCEPT ![p] = "mkdir"]
  /\ nCalls' = nCalls + 1
  /\ UNCHANGED <<calls, content, files, clock, mode, schema, dl, scraper, last, execs, missResult,
                 saveStarted, saveReturned>>

\* await mkdir("./data", {recursive: true}): succeeds whether or not the
\* directory exists.
InitMkdir(p) ==
  /\ pc[p] = "mkdir"
  /\ pc' = [pc EXCEPT ![p] = "migrate"]
  /\ UNCHANGED <<calls, content, files, clock, mode, schema, dl, scraper, inv, last, nCalls, execs,
                 missResult, saveStarted, saveReturned>>

\* await migrate(db, {migrationsFolder: "./drizzle"}).
Migrate(p) ==
  /\ pc[p] = "migrate"
  /\ schema' = MigrateResult(schema).schema
  /\ IF MigrateResult(schema).ok
     THEN Settle(p, "ok", "none", Undefined)
     ELSE Settle(p, "threw", "SQLiteError", Undefined)
  /\ UNCHANGED <<calls, content, files, clock, mode, dl, scraper, nCalls, execs, missResult,
                 saveStarted, saveReturned>>

\* --------------------------------------------------------- getContentInfo
\* A direct call getContentInfo(hash).
StartInfo(p, h) ==
  /\ CanStart(p)
  /\ inv' = [inv EXCEPT ![p] = [FreshInv EXCEPT !.kind = "info", !.seq = nCalls + 1,
                                                !.hash = h]]
  /\ pc' = [pc EXCEPT ![p] = "infoSelect"]
  /\ nCalls' = nCalls + 1
  /\ UNCHANGED <<calls, content, files, clock, mode, schema, dl, scraper, last, execs, missResult,
                 saveStarted, saveReturned>>

\* What getContentInfo resolves with: the content row (here its size_bytes and
\* reference_count), or undefined when there is none.
InfoOf(rows) ==
  IF rows = {} THEN Undefined
  ELSE LET r == CHOOSE x \in rows : TRUE
       IN [type |-> "row", val |-> <<r.sizeBytes, r.referenceCount>>]

\* The select of the content row, returned as it is.
InfoSelect(p) ==
  /\ pc[p] = "infoSelect"
  /\ Settle(p, "ok", "none", InfoOf(SelectContent(inv[p].hash)))
  /\ UNCHANGED <<calls, content, files, clock, mode, schema, dl, scraper, nCalls, execs, missResult,
                 saveStarted, saveReturned>>

\* ------------------------------------------------------------------ time
Tick ==
  /\ clock < MaxClock
  /\ clock' = clock + 1
  /\ UNCHANGED <<calls, content, files, mode, schema, dl, scraper, pc, inv, last, nCalls, execs, missResult,
                 saveStarted, saveReturned>>

\* ------------------------------------------------- outside the program
\* Someone removes a file under ./data/scraped.
ExternalRemoveFile(f) ==
  /\ f \in files
  /\ files' = files \ {f}
  /\ UNCHANGED <<calls, content, clock, mode, schema, dl, scraper, pc, inv, last, nCalls, execs, missResult,
                 saveStarted, saveReturned>>

\* Someone deletes a row of the content table.
ExternalDeleteContent(r) ==
  /\ r \in content
  /\ content' = content \ {r}
  /\ UNCHANGED <<calls, files, clock, mode, schema, dl, scraper, pc, inv, last, nCalls, execs, missResult,
                 saveStarted, saveReturned>>

\* Time passes while the wrapped operation of p runs.
ExecTakesTime(p) ==
  /\ pc[p] = "exec"
  /\ Tick

\* ---------------------------------------------------------- specifications
Next ==
  \E p \in Procs :
    \/ \E m \in Methods, a \in Args : Invoke(p, m, a)
    \/ \E i \in SaveInputs : StartSave(p, i.data, i.mimeType)
    \/ \E h \in Hashes : StartLoad(p, h)
    \/ HitUpdate(p)
    \/ \E r \in Results : ExecResolve(p, r)
    \/ \E e \in OpErrors : ExecReject(p, e)
    \/ Upsert(p)
    \/ SaveSelect(p)
    \/ SaveUpdate(p)
    \/ SaveWrite(p)
    \/ SaveInsert(p)
    \/ LoadSelect(p)
    \/ LoadExists(p)
    \/ LoadRead(p)

\* Calls overlap freely: any call may start while others are in flight.  Time
\* is read but decides nothing in the code, so it stands still here; SpecTimed
\* lets it pass.
Spec == Init /\ [][Next]_vars

\* Calls are made one after the other: each is awaited before the next starts.
SpecSeq == InitSeq /\ [][Next]_vars

\* Overlapping calls whose operations resolve to values that serialize (10),
\* that serialize to nothing (undefined) and that do not serialize (10n).
SpecSer == InitSer /\ [][Next]_vars

\* The storage functions called directly, the calls overlapping, with files
\* disappearing behind the program's back at any moment, also in the middle of
\* a call.
NextStoreExt ==
  \/ \E p \in Procs :
       \/ \E i \in SaveInputs : StartSave(p, i.data, i.mimeType)
       \/ \E h \in Hashes : StartLoad(p, h)
       \/ SaveSelect(p)
       \/ SaveUpdate(p)
       \/ SaveWrite(p)
       \/ SaveInsert(p)
       \/ LoadSelect(p)
       \/ LoadExists(p)
       \/ LoadRead(p)
  \/ \E f \in files : ExternalRemoveFile(f)

SpecStoreExt == Init /\ [][NextStoreExt]_vars

\* Memoized methods called one after the other, with files and content rows
\* disappearing behind the program's back at any moment, also in the middle of
\* a call.
NextMemoExt ==
  \/ \E p \in Procs :
       \/ \E m \in Methods, a \in ArgLists : Invoke(p, m, a)
       \/ HitUpdate(p)
       \/ \E r \in Results : ExecResolve(p, r)
       \/ \E e \in OpErrors : ExecReject(p, e)
       \/ Upsert(p)
       \/ SaveSelect(p)
       \/ SaveUpdate(p)
       \/ SaveWrite(p)
       \/ SaveInsert(p)
       \/ LoadSelect(p)
       \/ LoadExists(p)
       \/ LoadRead(p)
  \/ \E f \in files : ExternalRemoveFile(f)
  \/ \E r \in content : ExternalDeleteContent(r)

SpecMemoExt == InitSeq /\ [][NextMemoExt]_vars

\* Memoized methods called one after the other with an object argument built
\* in two key orders; saveContent and loadContent are called by them only.
NextKeys ==
  \E p \in Procs :
    \/ \E m \in Methods, a \in Args : Invoke(p, m, a)
    \/ HitUpdate(p)
    \/ \E r \in Results : ExecResolve(p, r)
    \/ \E e \in OpErrors : ExecReject(p, e)
    \/ Upsert(p)
    \/ SaveSelect(p)
    \/ SaveUpdate(p)
    \/ SaveWrite(p)
    \/ SaveInsert(p)
    \/ LoadSelect(p)
    \/ LoadExists(p)
    \/ LoadRead(p)

SpecKeys == InitKey /\ [][NextKeys]_vars

\* Overlapping memoized calls in which every kind of failure happens: the
\* operation rejects, a write to the calls table rejects, content rows and
\* files are removed from outside, two saves insert the same hash.
NextFail ==
  \/ NextKeys
  \/ \E p \in Procs : LedgerFails(p)
  \/ \E f \in files : ExternalRemoveFile(f)
  \/ \E r \in content : ExternalDeleteContent(r)

SpecFail == InitRace /\ [][NextFail]_vars

\* A new database file: initializeDatabase() is called first, and again at
\* any time between the other calls.
NextInit ==
  \/ Next
  \/ \E p \in Procs :
       \/ StartInit(p)
       \/ InitMkdir(p)
       \/ Migrate(p)

SpecInit == InitFresh /\ [][NextInit]_vars

\* Time passes between two calls.
IdleTick == Quiet /\ Tick

\* Memoized methods called one after the other, with time passing between
\* the calls and content rows and files removed from outside.
NextStale ==
  \/ NextKeys
  \/ IdleTick
  \/ \E f \in files : ExternalRemoveFile(f)
  \/ \E r \in content : ExternalDeleteContent(r)

SpecStale == InitStale /\ [][NextStale]_vars

\* The storage functions called directly, the calls overlapping.
NextStore ==
  \E p \in Procs :
    \/ \E i \in SaveInputs : StartSave(p, i.data, i.mimeType)
    \/ \E h \in Hashes : StartLoad(p, h)
    \/ \E h \in Hashes : StartInfo(p, h)
    \/ SaveSelect(p)
    \/ SaveUpdate(p)
    \/ SaveWrite(p)
    \/ SaveInsert(p)
    \/ LoadSelect(p)
    \/ LoadExists(p)
    \/ LoadRead(p)
    \/ InfoSelect(p)

SpecStore == Init /\ [][NextStore]_vars

\* Overlapping memoized calls whose writes to the calls table can reject.
NextWindow ==
  \/ NextKeys
  \/ \E p \in Procs : LedgerFails(p)

SpecWindow == Init /\ [][NextWindow]_vars

\* Every operation of the core: memoized methods, saveContent, loadContent and
\* getContentInfo.
NextAll ==
  \/ Next
  \/ \E p \in Procs :
       \/ \E h \in Hashes : StartInfo(p, h)
       \/ InfoSelect(p)

SpecAll == InitSeq /\ [][NextAll]_vars

\* Overlapping calls, with time passing between any two steps.
NextTimed == Next \/ Tick

SpecTimed == Init /\ [][NextTimed]_vars

\* Calls made one after the other, with time passing only while a wrapped
\* operation runs.
NextSlow == Next \/ \E p \in Procs : ExecTakesTime(p)

SpecSlow == InitSeq /\ [][NextSlow]_vars

\* Memoized methods called with the calls overlapping, with time passing only
\* while a wrapped operation runs.
NextRace == NextKeys \/ \E p \in Procs : ExecTakesTime(p)

SpecRace == InitRace /\ [][NextRace]_vars

\* ------------------------------------------------------------ the claims
\* Fingerprints of the methods decorated without ignoreCache.
CachedFingerprints ==
  { hashArgs(functionNameOf(m), a) : m \in {x \in Methods : ~x.ignoreCache}, a \in ArgLists }

\* Files whose name carries content hash h.
FilesOf(h) == { f \in files : f.path.hash = h }

\* The invocations in flight.
InFlight == { p \in Procs : pc[p] # "idle" }

\* C1 (SpecSeq).  Hit avoids re-execution: with calls made one after the other,
\* once a miss of a method decorated without ignoreCache has completed for a
\* fingerprint, every later invocation with that fingerprint finds the calls
\* row and never stands at the wrapped operation, so the operation resolves at
\* most once per fingerprint.
C1_HitAvoidsReexecution ==
  /\ \A k \in CachedFingerprints : execs[k] <= 1
  /\ \A p \in InFlight :
       (inv[p].kind = "memo" /\ ~inv[p].ignoreCache
          /\ missResult[inv[p].argsHash] # Undefined)
       => (inv[p].hit /\ pc[p] \in {"hitUpdate", "loadSelect", "loadExists", "loadRead"})

\* C1 witness: the third of three sequential identical calls settled as a hit
\* and the operation has run once.
C1_Witness ==
  /\ last.kind = "memo" /\ last.hit /\ last.ret.status = "ok"
  /\ last.seq = 3
  /\ execs[last.argsHash] = 1

\* Values of structured (JSON-like or text) shape.
Structured(v) == v.type \in {"number", "string", "object"}

\* C2 (SpecSeq).  On a hit for a structured payload the memoized method returns
\* the value the miss returned (10 for 10, not a Buffer).
C2_HitReturnsOriginalValue ==
  (last.kind = "memo" /\ last.hit /\ last.ret.status = "ok"
     /\ Structured(missResult[last.argsHash]))
  => last.ret.val = missResult[last.argsHash]

\* C3 (SpecSeq).  No negative caching: the step in which the wrapped operation
\* throws changes no table and no file and rejects with the operation's own
\* error; after it the fingerprint has no calls row, and the next identical
\* call misses.
C3_NoNegativeCaching ==
  /\ [][\A p \in Procs :
          (pc[p] = "exec" /\ pc'[p] = "idle")
          => /\ calls' = calls /\ content' = content /\ files' = files
             /\ last'.ret.status = "threw"
             /\ last'.ret.error = "OperationError"
             /\ last'.ret.val \in OpErrors]_vars
  /\ []((last.ret.error = "OperationError" /\ ~last.ignoreCache)
        => /\ SelectCalls(last.argsHash) = {}
           /\ \A p \in InFlight :
                (inv[p].kind = "memo" /\ inv[p].argsHash = last.argsHash)
                => (~inv[p].hit /\ pc[p] \notin {"hitUpdate", "loadSelect",
                                                   "loadExists", "loadRead"}))

\* C3 witness: the operation threw, and the next identical call stands at the
\* wrapped operation again.
C3_Witness ==
  /\ last.ret.error = "OperationError" /\ ~last.ignoreCache
  /\ \E p \in InFlight : inv[p].argsHash = last.argsHash /\ pc[p] = "exec"

\* C4 (Spec).  Concurrent identical misses are safe: when the only two calls
\* were invocations with one fingerprint that both missed and whose operations
\* returned the same bytes, both completed without error and there is one calls
\* row, referencing the one content row, which has one file.
C4_ConcurrentMissesSafe ==
  \A k \in CachedFingerprints, h \in Hashes :
    (Quiet /\ nCalls = 2 /\ execs[k] = 2 /\ saveStarted[h] = 2)
    => /\ saveReturned[h] = 2
       /\ last.ret.status = "ok"
       /\ Cardinality(SelectCalls(k)) = 1
       /\ \A r \in SelectCalls(k) : r.contentHash = h
       /\ Cardinality(SelectContent(h)) = 1
       /\ Cardinality(FilesOf(h)) = 1

\* C5 (Spec).  Referential integrity: every calls row references a content row
\* that exists, in every state of overlapping invocations.
C5_ReferentialIntegrity ==
  \A r \in calls : SelectContent(r.contentHash) # {}

\* C5 witness: a calls row exists while another invocation is between its file
\* write and its insert.
C5_Witness ==
  /\ calls # {}
  /\ \E p \in InFlight : pc[p] = "saveInsert"

\* C6 (Spec).  Whatever the interleaving of saves, also of the same bytes under
\* different content types, a content hash has at most one content row (one
\* once a save of it has returned) and at most one file.
C6_OneRecordOneFilePerHash ==
  \A h \in Hashes :
    /\ Cardinality(SelectContent(h)) <= 1
    /\ (saveReturned[h] >= 1 => Cardinality(SelectContent(h)) = 1)
    /\ Cardinality(FilesOf(h)) <= 1

\* C7 (SpecSeq).  Idempotent save: with saves made one after the other, a save
\* returns the hash of its bytes, and once the saves of a hash have returned
\* there is one file and one content row for it, whose reference_count is the
\* number of those saves (1 after the first, 2 after the second).
C7_IdempotentSave ==
  /\ (last.kind = "save" /\ last.ret.status # "none")
     => (last.ret.status = "ok" /\ last.ret.val = Str(Sha256Hex(toBuffer(last.data))))
  /\ \A h \in Hashes :
       (Quiet /\ saveStarted[h] >= 1)
       => /\ saveReturned[h] = saveStarted[h]
          /\ Cardinality(FilesOf(h)) = 1
          /\ Cardinality(SelectContent(h)) = 1
          /\ \A r \in SelectContent(h) : r.referenceCount = saveStarted[h]

\* C7 witness: the only two calls were save(B, t) twice, in sequence; the
\* second found the row of the first and the count stands at 2.
C7_Witness ==
  /\ Quiet /\ nCalls = 2
  /\ last.kind = "save" /\ last.existing /\ last.ret.status = "ok"
  /\ saveReturned[last.hash] = 2
  /\ \E r \in SelectContent(last.hash) :
       r.referenceCount = 2 /\ r.mimeType = last.mimeType

\* C8 (Spec).  reference_count grows by one per save, also when saves of the
\* same bytes overlap: once all have finished, each returned the hash and the
\* count is the number of saves.
C8_ReferenceCountPerSave ==
  \A h \in Hashes :
    (Quiet /\ saveStarted[h] >= 1)
    => /\ saveReturned[h] = saveStarted[h]
       /\ \A r \in SelectContent(h) : r.referenceCount = saveStarted[h]

\* C9 (SpecSeq).  Round trip: a load of a hash that an earlier save returned
\* resolves with exactly the bytes that were saved (the UTF-8 bytes of a text
\* payload, the bytes of a Buffer), also when that save was a duplicate.
C9_RoundTrip ==
  \A d \in Payloads :
    (Quiet /\ last.kind = "load" /\ last.hash = hashContent(d)
       /\ saveReturned[last.hash] >= 1)
    => (last.ret.status = "ok" /\ last.ret.val = Buf(toBuffer(d)))

\* C9 witness: the bytes were saved twice (the second save a duplicate) and
\* then loaded.
C9_Witness ==
  /\ Quiet /\ last.kind = "load" /\ last.ret.status = "ok"
  /\ saveReturned[last.hash] = 2

\* C10 (Spec).  Cross-caller dedup: when the only two calls were invocations
\* with distinct fingerprints that both completed as misses with the same
\* bytes, both calls rows reference the one content row of those bytes, its
\* reference_count is 2 and it has one file.
C10_CrossCallerDedup ==
  (Quiet /\ nCalls = 2) =>
  \A k1 \in Fingerprints, k2 \in Fingerprints, h \in Hashes :
    (k1 # k2 /\ execs[k1] = 1 /\ execs[k2] = 1 /\ saveReturned[h] = 2)
    => /\ \A k \in {k1, k2} :
            /\ Cardinality(SelectCalls(k)) = 1
            /\ \A r \in SelectCalls(k) : r.contentHash = h
       /\ Cardinality(SelectContent(h)) = 1
       /\ \A r \in SelectContent(h) : r.referenceCount = 2
       /\ Cardinality(FilesOf(h)) = 1

\* C10 witness: two methods both missed, one returning 10 and the other the
\* Buffer "10" (the same bytes under two content types).
C10_Witness ==
  /\ Quiet /\ nCalls = 2
  /\ \E k1 \in Fingerprints, k2 \in Fingerprints, h \in Hashes :
       /\ k1 # k2 /\ execs[k1] = 1 /\ execs[k2] = 1 /\ saveReturned[h] = 2
       /\ missResult[k1].type = "number" /\ missResult[k2].type = "buffer"

\* C11 (Spec).  On a miss the memoized method resolves with the wrapped
\* operation's own result (10, not the Buffer "10" that was stored), and the
\* step in which it resolves is the one that wrote the calls row: in the state
\* it resolves into, the content row of its bytes exists, a save of them has
\* returned, and the calls row of its fingerprint references them.
C11_MissReturnsLiveResult ==
  [][\A p \in Procs :
       (inv[p].kind = "memo" /\ ~inv[p].hit /\ pc[p] # "idle" /\ pc'[p] = "idle"
          /\ last'.ret.status = "ok")
       => /\ last'.ret.val = inv[p].result
          /\ SelectContent(inv[p].hash) # {}
          /\ saveReturned[inv[p].hash] >= 1
          /\ \E r \in calls' : r.argsHash = inv[p].argsHash /\ r.contentHash = inv[p].hash]_vars

\* C11 witness: a miss resolved with the number 10 while the stored bytes are
\* the two characters "10".
C11_Witness ==
  /\ last.kind = "memo" /\ ~last.hit /\ last.ret.status = "ok"
  /\ last.result = Num(10) /\ last.ret.val = Num(10)
  /\ \E r \in SelectContent(last.hash) : r.sizeBytes = 2

\* C12 (SpecSeq).  With calls made one after the other, a hit on a calls row
\* that a miss wrote for a Buffer result resolves with a Buffer of exactly the
\* bytes that miss returned.
C12_HitReturnsSameBytes ==
  (last.kind = "memo" /\ last.hit /\ last.ret.status # "none"
     /\ missResult[last.argsHash].type = "buffer")
  => /\ last.ret.status = "ok"
     /\ last.ret.val.type = "buffer"
     /\ last.ret.val.val = missResult[last.argsHash].val

\* C12 witness: the miss returned the Buffer "10" and a later hit resolved.
C12_Witness ==
  /\ last.kind = "memo" /\ last.hit /\ last.ret.status = "ok"
  /\ missResult[last.argsHash] = Buf(<<49, 48>>)
  /\ execs[last.argsHash] = 1

\* Results that serializeData does not turn into text or bytes.
Unserializable(v) == v.type \in {"undefined", "bigint"}

\* C13 (SpecSer).  When the wrapped operation resolved with a value that does
\* not serialize, no step of that invocation from then on writes to a table or
\* a file, the invocation gets no further than the start of saveContent, and
\* it rejects with the TypeError.
C13_SerializationFailureWritesNothing ==
  /\ [][\A p \in Procs :
          (pc'[p] # pc[p]
             /\ \/ Unserializable(inv[p].result)
                \/ Unserializable(inv'[p].result)
                \/ (pc'[p] = "idle" /\ Unserializable(last'.result)))
          => calls' = calls /\ content' = content /\ files' = files]_vars
  /\ [](\A p \in InFlight : Unserializable(inv[p].result) => pc[p] = "saveSelect")
  /\ []((last.ret.status # "none" /\ Unserializable(last.result))
        => (last.ret.status = "threw" /\ last.ret.error = "TypeError"
              /\ last.hash = NoText))

\* C13 witness: an invocation whose operation resolved with undefined rejected
\* while the store holds what another invocation cached.
C13_Witness ==
  /\ last.kind = "memo" /\ last.result = Undefined /\ last.ret.error = "TypeError"
  /\ calls # {} /\ content # {} /\ files # {}

\* C14 (SpecSlow).  Upsert semantics: the upsert of a calls row for a
\* fingerprint that has a row does not fail; it leaves one row for the
\* fingerprint, with content_hash, fetch_duration_ms and last_accessed set to
\* the new values and the other columns, and all other rows, as they were.
C14_UpsertOverwrites ==
  [][\A p \in Procs :
       (pc[p] = "upsert" /\ pc'[p] = "idle" /\ SelectCalls(inv[p].argsHash) # {})
       => /\ last'.ret.status = "ok"
          /\ Cardinality({ s \in calls' : s.argsHash = inv[p].argsHash }) = 1
          /\ \A r \in SelectCalls(inv[p].argsHash) :
               \A s \in calls' :
                 s.argsHash = inv[p].argsHash
                 => /\ s.contentHash = inv[p].hash
                    /\ s.fetchDurationMs = inv[p].fetchDuration
                    /\ s.lastAccessed = clock
                    /\ s.createdAt = r.createdAt
                    /\ s.functionName = r.functionName
                    /\ s.argsJson = r.argsJson
          /\ { s \in calls' : s.argsHash # inv[p].argsHash }
               = { r \in calls : r.argsHash # inv[p].argsHash }]_vars

\* C14 witness: the second invocation of a method decorated with ignoreCache
\* resolved; its upsert found the row of the first and replaced the hash, the
\* duration and last_accessed.
C14_Witness ==
  /\ last.kind = "memo" /\ last.ignoreCache /\ last.ret.status = "ok"
  /\ execs[last.argsHash] = 2
  /\ \E r \in SelectCalls(last.argsHash) :
       /\ r.contentHash = hashContent(Str(<<104, 233>>))
       /\ r.createdAt < r.lastAccessed
       /\ r.fetchDurationMs > 0
  /\ SelectContent(hashContent(Str(<<49, 48>>))) # {}

\* Where an invocation stands once it has called the wrapped operation.
MissPath == {"exec", "saveSelect", "saveUpdate", "saveWrite", "saveInsert", "upsert"}

\* C15 (Spec).  No single-flight: while a fingerprint has no calls row, every
\* two invocations in flight with that fingerprint have both called the
\* wrapped operation (neither waits for the other or is served from the
\* cache), and the operation has resolved once for each invocation that has
\* gone past it.
C15_NoSingleFlight ==
  /\ \A p \in InFlight, q \in InFlight :
       (p # q /\ inv[p].kind = "memo" /\ inv[q].kind = "memo"
          /\ inv[p].argsHash = inv[q].argsHash
          /\ SelectCalls(inv[p].argsHash) = {})
       => (pc[p] \in MissPath /\ pc[q] \in MissPath)
  /\ \A k \in Fingerprints :
       execs[k] >= Cardinality({ p \in InFlight : inv[p].kind = "memo"
                                   /\ inv[p].argsHash = k
                                   /\ pc[p] \in MissPath \ {"exec"} })

\* C15 witness: two invocations of a method decorated without ignoreCache are
\* in flight with one fingerprint, both missed, neither has written, and the
\* operation has run twice.
C15_Witness ==
  \E p \in InFlight, q \in InFlight :
    /\ p # q /\ inv[p].kind = "memo" /\ inv[q].kind = "memo"
    /\ inv[p].argsHash = inv[q].argsHash /\ ~inv[p].ignoreCache
    /\ ~inv[p].hit /\ ~inv[q].hit
    /\ SelectCalls(inv[p].argsHash) = {}
    /\ execs[inv[p].argsHash] = 2

\* C16 (Spec).  Last writer wins: when the only two calls were invocations of a
\* method decorated without ignoreCache with one fingerprint, both missed and
\* their operations returned different bytes, then once both have finished
\* both resolved, the fingerprint has one calls row, that row holds the content
\* hash of the invocation that upserted last, and both content rows exist.
C16_LastWriterWins ==
  (Quiet /\ nCalls = 2) =>
  \A k \in CachedFingerprints, h1 \in Hashes, h2 \in Hashes :
    (execs[k] = 2 /\ h1 # h2 /\ saveStarted[h1] = 1 /\ saveStarted[h2] = 1)
    => /\ last.ret.status = "ok" /\ last.argsHash = k
       /\ saveReturned[h1] = 1 /\ saveReturned[h2] = 1
       /\ last.hash \in {h1, h2}
       /\ Cardinality(SelectCalls(k)) = 1
       /\ \A r \in SelectCalls(k) : r.contentHash = last.hash
       /\ SelectContent(h1) # {} /\ SelectContent(h2) # {}

\* C16 witness: the two invocations returned 10 and "h\u00e9"; the one that
\* returned 10 upserted last, and the row holds the hash of "10".
C16_Witness ==
  /\ Quiet /\ nCalls = 2
  /\ last.kind = "memo" /\ ~last.ignoreCache /\ last.result = Num(10)
  /\ execs[last.argsHash] = 2
  /\ saveStarted[hashContent(Str(<<104, 233>>))] = 1
  /\ \A r \in SelectCalls(last.argsHash) : r.contentHash = hashContent(Str(<<49, 48>>))

\* C17 (Spec).  loadContent(hash) of a hash that has no content row rejects
\* with "Content not found" in the step that looked the row up, and that step
\* changes no calls row, no content row and no file; a load that resolved
\* found a content row and returned bytes, never an empty Buffer.
C17_LoadUnknownHashFails ==
  /\ [][\A p \in Procs :
          (pc[p] = "loadSelect" /\ pc'[p] # "loadSelect"
             /\ SelectContent(inv[p].hash) = {})
          => /\ pc'[p] = "idle"
             /\ last'.ret.status = "threw" /\ last'.ret.error = "ContentNotFound"
             /\ last'.hash = inv[p].hash
             /\ calls' = calls /\ content' = content /\ files' = files]_vars
  /\ []((last.kind = "load" /\ last.ret.status = "ok")
        => (SelectContent(last.hash) # {} /\ last.ret.val.val # <<>>))

\* C17 witness: loadContent("deadbeef") rejected while the store holds other
\* content.
C17_Witness ==
  /\ last.kind = "load" /\ last.hash = <<100, 101, 97, 100, 98, 101, 101, 102>>
  /\ last.ret.status = "threw" /\ last.ret.error = "ContentNotFound"
  /\ content # {} /\ files # {}

\* Where an invocation stands inside loadContent.
LoadPath == {"loadSelect", "loadExists", "loadRead"}

\* C18 (SpecStoreExt).  loadContent(hash) of a hash whose content row exists
\* but whose file is gone when the load looks for it rejects with "Content
\* file missing"; no step of a load writes a file or a content row (the file
\* is not recreated), and a load that resolved returned bytes, never an empty
\* Buffer.
C18_LoadMissingFileFails ==
  /\ [][\A p \in Procs :
          (pc[p] = "loadExists" /\ pc'[p] # "loadExists" /\ ~FileExists(inv[p].record))
          => /\ pc'[p] = "idle"
             /\ last'.ret.status = "threw" /\ last'.ret.error = "ContentMissing"
             /\ last'.hash = inv[p].hash]_vars
  /\ [][\A p \in Procs :
          (pc[p] \in LoadPath /\ pc'[p] # pc[p])
          => (files' = files /\ content' = content /\ calls' = calls)]_vars
  /\ []((last.kind = "load" /\ last.ret.status = "ok") => last.ret.val.val # <<>>)

\* C18 witness: a load rejected with "Content file missing"; the content row
\* of its hash is there and no file carries the hash.
C18_Witness ==
  /\ last.kind = "load"
  /\ last.ret.status = "threw" /\ last.ret.error = "ContentMissing"
  /\ SelectContent(last.hash) # {}
  /\ FilesOf(last.hash) = {}

\* The content hash each calls row holds.
ContentHashOf(rows) == { <<r.argsHash, r.contentHash>> : r \in rows }

\* C19 (SpecMemoExt).  A hit whose content cannot be loaded rejects with the
\* error of loadContent ("Content not found" when the content row is gone,
\* "Content file missing" when the file is gone); no step of a hit goes to the
\* wrapped operation, runs it, writes a content row or a file, or changes the
\* content hash of a calls row; a hit that resolved returned bytes, never an
\* empty value.
C19_HitLoadFailureRaised ==
  /\ [][\A p \in Procs :
          (inv[p].kind = "memo" /\ inv[p].hit /\ pc'[p] # pc[p])
          => /\ pc'[p] \notin MissPath
             /\ execs' = execs /\ content' = content /\ files' = files
             /\ ContentHashOf(calls') = ContentHashOf(calls)
             /\ (pc[p] = "loadSelect" /\ SelectContent(inv[p].hash) = {})
                => (pc'[p] = "idle" /\ last'.ret.status = "threw"
                      /\ last'.ret.error = "ContentNotFound")
             /\ (pc[p] = "loadExists" /\ ~FileExists(inv[p].record))
                => (pc'[p] = "idle" /\ last'.ret.status = "threw"
                      /\ last'.ret.error = "ContentMissing")]_vars
  /\ []((last.kind = "memo" /\ last.hit /\ last.ret.status = "ok")
        => (last.ret.val.type = "buffer" /\ last.ret.val.val # <<>>))

\* C19 witness: a hit rejected with "Content file missing"; the operation has
\* run once (for the miss), and the calls row still holds the hash the hit
\* found.
C19_Witness ==
  /\ last.kind = "memo" /\ last.hit
  /\ last.ret.status = "threw" /\ last.ret.error = "ContentMissing"
  /\ execs[last.argsHash] = 1
  /\ \E r \in SelectCalls(last.argsHash) : r.contentHash = last.cachedHash
  /\ FilesOf(last.cachedHash) = {}

\* C20 (Spec).  Content addressing: with nothing but the program touching the
\* files, in every state of overlapping calls each content row's file_path
\* names a file that exists, whose bytes hash to the row's hash and whose
\* length in bytes is the row's size_bytes.
C20_ContentAddressing ==
  \A r \in content :
    /\ FileExists(r.filePath)
    /\ Sha256Hex(FileBytes(r.filePath)) = r.hash
    /\ r.sizeBytes = Len(FileBytes(r.filePath))
    /\ r.filePath.hash = r.hash

\* C20 witness: the text "h\u00e9" (two characters, three bytes) is stored
\* while another invocation is in flight.
C20_Witness ==
  /\ \E r \in content :
       r.sizeBytes = 3 /\ Len(Utf8Decode(FileBytes(r.filePath))) = 2
  /\ InFlight # {}

\* The rows of calls that carry an operation name and serialized arguments.
RowsOf(functionName, argsJson) ==
  { r \in calls : r.functionName = functionName /\ r.argsJson = argsJson }

\* C21 (SpecKeys).  The fingerprint is a function of the operation name and
\* the serialized arguments: every calls row's key is the hash of
\* `${function_name}:${args_json}`, and an invocation's key is that of its
\* name and serialized arguments.  Namespacing: rows (and invocations) with
\* the same serialized arguments and different names have different keys, and
\* the row a hit found carries the name and the arguments of the invocation,
\* never those of another method.  Determinism: an invocation of a method
\* decorated without ignoreCache whose name and arguments have a row is a hit.
C21_FingerprintNamespacing ==
  /\ \A r \in calls :
       r.argsHash = Sha256Hex(Utf8Encode(r.functionName \o <<58>> \o r.argsJson))
  /\ \A r1 \in calls, r2 \in calls :
       (r1.argsJson = r2.argsJson /\ r1.functionName # r2.functionName)
       => r1.argsHash # r2.argsHash
  /\ \A p \in InFlight :
       (inv[p].kind = "memo" /\ ~inv[p].ignoreCache /\ pc[p] # "upsert")
       => /\ inv[p].argsHash
               = Sha256Hex(Utf8Encode(inv[p].functionName \o <<58>> \o inv[p].argsJson))
          /\ inv[p].hit <=> (RowsOf(inv[p].functionName, inv[p].argsJson) # {})
          /\ inv[p].hit => SelectCalls(inv[p].argsHash)
                             = RowsOf(inv[p].functionName, inv[p].argsJson)

\* C21 witness: m.d and m.e have both cached a call with the arguments
\* [{"a":1,"b":2}] (two rows, one per name) and a third call was a hit.
C21_Witness ==
  /\ \E r1 \in calls, r2 \in calls :
       /\ r1.argsJson = r2.argsJson /\ r1.functionName # r2.functionName
       /\ r1.argsJson = JsonStringifyArgs(<<Obj(<<97, 1, 98, 2>>)>>)
  /\ last.kind = "memo" /\ last.hit /\ last.ret.status = "ok"

\* [{a: 1, b: 2}] and [{b: 2, a: 1}].
ArgsAB == <<Obj(<<97, 1, 98, 2>>)>>
ArgsBA == <<Obj(<<98, 2, 97, 1>>)>>

\* C22 (SpecKeys).  Key order sensitivity: for a method decorated without
\* ignoreCache, an invocation with [{b: 2, a: 1}] has another key than one
\* with [{a: 1, b: 2}]; it is a hit only when a row for the arguments in its
\* own key order exists, so after a completed miss with the other order it
\* misses, and once both orders have missed there are two calls rows.
C22_KeyOrderSensitive ==
  /\ \A p \in InFlight, r \in calls :
       (inv[p].kind = "memo" /\ inv[p].functionName = r.functionName
          /\ {inv[p].argsJson, r.argsJson}
               = {JsonStringifyArgs(ArgsAB), JsonStringifyArgs(ArgsBA)})
       => inv[p].argsHash # r.argsHash
  /\ \A p \in InFlight :
       (inv[p].kind = "memo" /\ ~inv[p].ignoreCache
          /\ RowsOf(inv[p].functionName, inv[p].argsJson) = {})
       => (~inv[p].hit /\ pc[p] \in MissPath)
  /\ \A m \in Methods :
       (Quiet /\ execs[hashArgs(functionNameOf(m), ArgsAB)] >= 1
              /\ execs[hashArgs(functionNameOf(m), ArgsBA)] >= 1
              /\ last.ret.status = "ok" /\ nCalls = 2)
       => Cardinality({ r \in calls : r.functionName = functionNameOf(m) }) = 2

\* C22 witness: m.d was called with [{a: 1, b: 2}] and then with
\* [{b: 2, a: 1}]; both calls missed and there are two rows of m.d.
C22_Witness ==
  /\ Quiet /\ nCalls = 2 /\ last.ret.status = "ok"
  /\ last.kind = "memo" /\ ~last.ignoreCache /\ ~last.hit
  /\ last.argsJson = JsonStringifyArgs(ArgsBA)
  /\ RowsOf(last.functionName, JsonStringifyArgs(ArgsAB)) # {}
  /\ RowsOf(last.functionName, JsonStringifyArgs(ArgsBA)) # {}
  /\ execs[last.argsHash] = 1

\* C23 (SpecSlow).  A hit changes only last_accessed of its row: every step of
\* an invocation that found its calls row leaves the content table and the
\* files as they are, leaves every other calls row as it is, and changes of
\* its own row nothing but last_accessed, which the update sets to the time of
\* the hit.
C23_HitTouchesLastAccessedOnly ==
  [][\A p \in Procs :
       (inv[p].kind = "memo" /\ inv[p].hit /\ pc'[p] # pc[p])
       => /\ content' = content /\ files' = files
          /\ Cardinality(calls') = Cardinality(calls)
          /\ \A r \in calls :
               IF r.argsHash = inv[p].argsHash
               THEN \E s \in calls' :
                      /\ s = [r EXCEPT !.lastAccessed = s.lastAccessed]
                      /\ (pc[p] = "hitUpdate" => s.lastAccessed = clock)
                      /\ (pc[p] # "hitUpdate" => s.lastAccessed = r.lastAccessed)
               ELSE r \in calls']_vars

\* C23 witness: a hit resolved; its row was created by a miss whose operation
\* took time and was accessed later than it was created, and another row and
\* its content are there.
C23_Witness ==
  /\ last.kind = "memo" /\ last.hit /\ last.ret.status = "ok"
  /\ \E r \in SelectCalls(last.argsHash) : r.createdAt < r.lastAccessed
  /\ Cardinality(calls) = 2

\* C24 (SpecRace).  created_at is set once: a row that appears in calls has
\* the time of its insert as created_at, and every step (a hit, a repeated
\* miss under ignoreCache, the later of two overlapping misses) leaves each
\* existing row in the table with the created_at it had.
C24_CreatedAtSetOnce ==
  [][/\ \A r \in calls :
          \E s \in calls' : s.argsHash = r.argsHash /\ s.createdAt = r.createdAt
     /\ \A s \in calls' :
          (SelectCalls(s.argsHash) = {}) => s.createdAt = clock
     /\ Cardinality({ s.argsHash : s \in calls' }) = Cardinality(calls')]_vars

\* C24 witness: two overlapping invocations of a method decorated without
\* ignoreCache both missed; the second upsert came later than the first and
\* the row still has the earlier created_at.
C24_Witness ==
  /\ last.kind = "memo" /\ ~last.ignoreCache /\ ~last.hit /\ last.ret.status = "ok"
  /\ execs[last.argsHash] = 2
  /\ \E r \in SelectCalls(last.argsHash) : r.createdAt < r.lastAccessed

\* C25 (Spec).  reference_count is 1 when a content row is created, is at
\* least 1 for every row in every state, and no step makes the count of an
\* existing row smaller (or removes the row).
C25_ReferenceCountMonotone ==
  /\ [][/\ \A r \in content :
             \E s \in content' : s.hash = r.hash /\ s.referenceCount >= r.referenceCount
        /\ \A s \in content' :
             (SelectContent(s.hash) = {}) => s.referenceCount = 1]_vars
  /\ [](\A r \in content : r.referenceCount >= 1)

\* C25 witness: two calls were made, both have finished, and a content row
\* they both saved to has a count of 2.
C25_Witness ==
  /\ \E r \in content : r.referenceCount = 2
  /\ content # {} /\ nCalls = 2 /\ Quiet

\* The calls rows whose content_hash is h.
ReferencesTo(h) == { c \in calls : c.contentHash = h }

\* C26 (SpecKeys).  With memoized methods called one after the other and
\* nothing else saving content, whenever no invocation is in progress the
\* reference_count of each content row is the number of calls rows that
\* reference it.
C26_ReferenceCountIsNumberOfReferences ==
  Quiet => \A r \in content : r.referenceCount = Cardinality(ReferencesTo(r.hash))


\* The fingerprints of the ledger, the hashes of the content table and the
\* paths of the files on disk.
FingerprintsOf(rows) == { r.argsHash : r \in rows }

HashesOf(rows) == { r.hash : r \in rows }

PathsOf(fs) == { f.path : f \in fs }

\* C27: no step of a memoized method, of saveContent, of loadContent or of
\* getContentInfo removes a calls row's fingerprint, a content row's hash or a
\* file: the three sets only grow.
C27_NeverDeletes ==
  [][ /\ FingerprintsOf(calls) \subseteq FingerprintsOf(calls')
      /\ HashesOf(content) \subseteq HashesOf(content')
      /\ PathsOf(files) \subseteq PathsOf(files') ]_vars

\* An ignoreCache method ran twice with different results and getContentInfo
\* was then called: the first result's content row and file are still there,
\* although no calls row references them any more.
C27_Witness ==
  /\ Quiet
  /\ last.kind = "info"
  /\ last.ret.val.type = "row"
  /\ \E r \in content :
       /\ ReferencesTo(r.hash) = {}
       /\ Cardinality(calls) = 1
       /\ \A c \in calls : execs[c.argsHash] = 2
       /\ \E f \in files : f.path.hash = r.hash


\* The extension the static table gives each content type the calls use;
\* application/octet-stream is not in the table.
ExpectedExtension(mimeType) ==
  CASE mimeType = "application/json" -> "json"
    [] mimeType = "text/plain" -> "txt"
    [] mimeType = "image/png" -> "png"
    [] mimeType = "application/octet-stream" -> "bin"

\* The step of a save that found a content row with the bytes' hash: no file
\* and no calls row changes, and the content table changes only in that row's
\* reference_count, which grows by one.
SaveOnExistingFrame(p) ==
  /\ files' = files
  /\ calls' = calls
  /\ content' = { IF r.hash = hashContent(inv[p].data)
                  THEN [r EXCEPT !.referenceCount = @ + 1] ELSE r : r \in content }
  /\ \E r \in content : r.hash = hashContent(inv[p].data)

\* The file a save that found no content row writes, and the row it inserts.
SavedFile(p) ==
  [ path |-> [dir |-> "scraped", hash |-> hashContent(inv[p].data),
              ext |-> ExpectedExtension(inv[p].mimeType)],
    bytes |-> toBuffer(inv[p].data) ]

SavedRow(p) ==
  [ hash |-> hashContent(inv[p].data), filePath |-> SavedFile(p).path,
    sizeBytes |-> Len(toBuffer(inv[p].data)), mimeType |-> inv[p].mimeType,
    referenceCount |-> 1 ]

\* C28: a save that finds a content row with the bytes' hash writes no file
\* and changes nothing but that row's reference_count; a save writes a file
\* only while no content row has the hash, the file being <hash>.<ext>, and
\* it then inserts a row with reference_count 1, size_bytes the byte length
\* and that file's path and returns, where ext is the table's extension for
\* the content type and "bin" for a type the table does not have.
C28_SaveWritesOnlyOnMiss ==
  [][ \A p \in Procs :
        /\ (pc[p] = "saveSelect" /\ pc'[p] \notin {"saveSelect", "idle"}) =>
             /\ UNCHANGED <<calls, content, files>>
             /\ pc'[p] = IF \E r \in content : r.hash = hashContent(inv[p].data)
                         THEN "saveUpdate" ELSE "saveWrite"
        /\ (pc[p] = "saveUpdate" /\ pc'[p] # "saveUpdate") => SaveOnExistingFrame(p)
        /\ (pc[p] = "saveWrite" /\ pc'[p] # "saveWrite") =>
             /\ SelectContent(hashContent(inv[p].data)) = {}
             /\ files' = files \cup { SavedFile(p) }
             /\ UNCHANGED <<calls, content>>
             /\ pc'[p] = "saveInsert"
        /\ (pc[p] = "saveInsert" /\ pc'[p] # "saveInsert") =>
             /\ content' = content \cup { SavedRow(p) }
             /\ UNCHANGED <<calls, files>>
             /\ pc'[p] = IF inv[p].kind = "memo" THEN "upsert" ELSE "idle"
             /\ pc'[p] = "idle" => last'.ret.status = "ok" ]_vars

\* The positions of a memoized invocation after a miss and after a hit.
MissPositions == {"exec", "saveSelect", "saveUpdate", "saveWrite", "saveInsert", "upsert"}

HitPositions == {"hitUpdate", "loadSelect", "loadExists", "loadRead"}

\* Invocation p rejects in this step, with one of the given errors.
Raises(p, errors) ==
  /\ pc'[p] = "idle"
  /\ last'.seq = inv[p].seq
  /\ last'.ret.status = "threw"
  /\ last'.ret.error \in errors

\* Invocation p takes a step.
Steps(p) == pc'[p] # pc[p] \/ inv'[p] # inv[p]

\* C29: an invocation of a memoized method calls the wrapped operation once
\* when it misses and never when it hits, and it rejects in the very step in
\* which the operation, a content store call or a write to the calls table
\* fails; it resolves only from its last step.
C29_NoRetryFailuresRaised ==
  /\ [](/\ \A p \in Procs :
             /\ pc[p] \in MissPositions /\ inv[p].kind = "memo" =>
                  inv[p].opCalls = 1 /\ ~inv[p].hit
             /\ pc[p] \in HitPositions /\ inv[p].kind = "memo" =>
                  inv[p].opCalls = 0 /\ inv[p].hit
        /\ last.kind = "memo" =>
             /\ last.opCalls = IF last.hit THEN 0 ELSE 1
             /\ (last.ret.status = "ok" /\ ~last.hit) => last.result # Pending
             /\ (last.ret.status = "ok") = (last.ret.error = "none"))
  /\ [][ \A p \in Procs :
           (inv[p].kind = "memo" /\ Steps(p)) =>
             /\ (pc'[p] = "idle" /\ last'.ret.status = "ok") => pc[p] \in {"upsert", "loadRead"}
             /\ pc'[p] = "exec" => pc[p] = "idle"
             /\ (pc[p] = "exec" /\ inv'[p].result = Pending) =>
                  Raises(p, {"OperationError", "TypeError"})
             /\ (pc[p] = "saveInsert" /\ SelectContent(inv[p].hash) # {}) =>
                  Raises(p, {"StoreError"})
             /\ (pc[p] = "loadSelect" /\ SelectContent(inv[p].hash) = {}) =>
                  Raises(p, {"ContentNotFound"})
             /\ (pc[p] \in {"loadExists", "loadRead"} /\ ~FileExists(inv[p].record)) =>
                  Raises(p, {"ContentMissing", "ENOENT"})
             /\ (pc[p] = "hitUpdate" /\ pc'[p] # "idle") =>
                  \E r \in calls' : r.argsHash = inv[p].argsHash /\ r.lastAccessed = clock
             /\ (pc[p] = "upsert" /\ last'.ret.status = "ok") =>
                  \E r \in calls' : r.argsHash = inv[p].argsHash /\ r.contentHash = inv[p].hash
             /\ (pc[p] \in {"hitUpdate", "upsert"} /\ pc'[p] = "idle"
                   /\ last'.ret.status # "ok") =>
                  Raises(p, {"LedgerError"}) /\ calls' = calls ]_vars

\* An invocation missed, its operation resolved once, and its save lost the
\* insert to an overlapping save of the same bytes: it rejected with the
\* store's error.
C29_Witness ==
  /\ last.kind = "memo" /\ ~last.hit /\ last.opCalls = 1
  /\ last.result # Pending
  /\ last.ret.status = "threw" /\ last.ret.error = "StoreError"
  /\ execs[last.argsHash] >= 1


Snapshots == { JsonStringifyArgs(a) : a \in KeyArgLists }

\* C31: every calls row's args_hash is the hash of its function_name, a colon
\* and its args_json, and args_json is the JSON text of an argument array a
\* call was made with; no step changes the function_name or the args_json of
\* a row, the upsert for an existing fingerprint included.
C31_SnapshotIsHashedText ==
  /\ [](\A r \in calls :
          /\ r.argsJson \in Snapshots
          /\ \E m \in Methods : r.functionName = functionNameOf(m)
          /\ r.argsHash = Sha256Hex(Utf8Encode(r.functionName) \o <<58>>
                                      \o Utf8Encode(r.argsJson)))
  /\ [][ \A r \in calls : \E r2 \in calls' :
           /\ r2.argsHash = r.argsHash
           /\ r2.functionName = r.functionName
           /\ r2.argsJson = r.argsJson ]_vars

\* The ignoreCache method ran twice on {a:1,b:2}: its one row was upserted
\* again and still holds the snapshot [{"a":1,"b":2}].
C31_Witness ==
  /\ Quiet /\ nCalls = 2 /\ last.ret.status = "ok"
  /\ last.ignoreCache /\ execs[last.argsHash] = 2
  /\ \E r \in calls :
       /\ r.argsHash = last.argsHash
       /\ r.argsJson = <<91, 123, 34, 97, 34, 58, 49, 44, 34, 98, 34, 58, 50, 125, 93>>
  /\ Cardinality(calls) = 1


\* Invocation p, after a miss, rejects in this step.
MissRejects(p) ==
  /\ inv[p].kind = "memo" /\ pc[p] \in MissPositions
  /\ pc'[p] = "idle" /\ last'.seq = inv[p].seq /\ last'.ret.status = "threw"

\* What a miss that rejects while its upsert is pending leaves: the content
\* row of its result and the file are there, and nothing changes in the step.
UpsertWindow(p) ==
  /\ pc[p] = "upsert"
  /\ UNCHANGED <<calls, content, files>>
  /\ \E r \in content : r.hash = inv[p].hash /\ r.referenceCount >= 1
                          /\ FileExists(r.filePath)

\* What a miss that rejects anywhere else leaves: it has written no file, or
\* the file it wrote is the file of a content row.
NothingLeft(p) ==
  /\ UNCHANGED <<calls, content, files>>
  /\ \/ pc[p] \in {"exec", "saveSelect"}
     \/ \E r \in content : r.filePath = SavedFile(p).path

\* C32: a miss that rejects leaves a partial write only when its upsert
\* rejects after its save returned (the content row, counted, and the file
\* stay, the calls table is as it was); and the calls table is written by a
\* miss only after its save returned.
C32_OnlyUpsertWindow ==
  [][ \A p \in Procs :
        /\ MissRejects(p) => (UpsertWindow(p) \/ NothingLeft(p))
        /\ (inv[p].kind = "memo" /\ pc[p] \in MissPositions /\ Steps(p) /\ calls' # calls)
             => /\ pc[p] = "upsert"
                /\ \E r \in content : r.hash = inv[p].hash ]_vars


\* The files no content row names.
FilesWithoutRecord == { f \in files : \A r \in content : r.filePath # f.path }

\* C33: every content row's file is on disk, in every state of overlapping
\* saves, and a save that is about to insert its row has its file on disk
\* already.
C33_RecordHasFile ==
  /\ \A r \in content : \E f \in files : f.path = r.filePath
  /\ \A p \in Procs :
       pc[p] = "saveInsert" =>
         \E f \in files :
           f.path = FilePath(inv[p].hash, getExtensionFromMimeType(inv[p].mimeType))

\* Two saves are between their file write and their insert, and a file is on
\* disk that no content row names.
C33_Witness ==
  /\ \E p \in Procs, q \in Procs :
       p # q /\ pc[p] = "saveInsert" /\ pc[q] = "saveInsert"
  /\ FilesWithoutRecord # {}


\* C34: a save that finds a content row with its bytes' hash takes the
\* duplicate branch, and that branch, also when the save's content type is not
\* the row's, leaves the row's file_path, mime_type and size_bytes and the
\* files as they are (it writes no file under the new type's extension) and
\* adds one to reference_count.
C34_DuplicateSaveKeepsFirstType ==
  [][ \A p \in Procs :
        /\ (pc[p] = "saveSelect" /\ pc'[p] # pc[p] /\ inv[p].data.type \in {"string", "buffer"}
              /\ SelectContent(hashContent(inv[p].data)) # {})
             => pc'[p] = "saveUpdate"
        /\ (pc[p] = "saveUpdate" /\ pc'[p] # pc[p]) =>
             /\ files' = files
             /\ \A r \in content :
                  IF r.hash = inv[p].hash
                  THEN [r EXCEPT !.referenceCount = @ + 1] \in content'
                  ELSE r \in content'
             /\ Cardinality(content') = Cardinality(content)
             /\ \E r \in content : r.hash = inv[p].hash ]_vars

\* saveContent of the bytes "10" as image/png returned after the same bytes
\* were stored as application/json: the one file is the .json one, and the
\* row, still of type application/json, counts two saves.
C34_Witness ==
  /\ Quiet
  /\ last.kind = "save" /\ last.existing /\ last.ret.status = "ok"
  /\ last.mimeType = "image/png"
  /\ \E r \in content :
       /\ r.hash = last.hash /\ r.referenceCount = 2 /\ r.filePath.ext = "json"
       /\ r.mimeType = "application/json" /\ r.sizeBytes = 2
       /\ { f \in files : f.path.hash = r.hash } = { [path |-> r.filePath, bytes |-> <<49, 48>>] }


\* reference_count of the content row of hash h in the rows given; 0 when
\* there is no row.
CountOf(rows, h) ==
  IF \E r \in rows : r.hash = h
  THEN (CHOOSE r \in rows : r.hash = h).referenceCount
  ELSE 0

\* C35: an invocation of a method decorated with ignoreCache calls the wrapped
\* operation whether or not the fingerprint has a calls row and is never on
\* the hit path; its save adds one to the reference_count of the result's
\* content row, and its upsert leaves one calls row for the fingerprint, with
\* the result's hash. No fingerprint ever has two rows.
C35_IgnoreCacheAlwaysExecutes ==
  /\ [](/\ \A r1 \in calls, r2 \in calls : r1.argsHash = r2.argsHash => r1 = r2
        /\ \A p \in Procs :
             (inv[p].kind = "memo" /\ inv[p].ignoreCache) =>
               /\ pc[p] \in MissPositions
               /\ inv[p].opCalls = 1 /\ ~inv[p].hit)
  /\ [][ \A p \in Procs :
           (inv[p].kind = "memo" /\ inv[p].ignoreCache) =>
             /\ (pc[p] \in {"saveUpdate", "saveInsert"} /\ pc'[p] = "upsert") =>
                  CountOf(content', inv[p].hash) = CountOf(content, inv[p].hash) + 1
             /\ (pc[p] = "upsert" /\ pc'[p] = "idle") =>
                  /\ last'.ret.status = "ok"
                  /\ Cardinality({ r \in calls' : r.argsHash = inv[p].argsHash }) = 1
                  /\ \A r \in calls' :
                       r.argsHash = inv[p].argsHash => r.contentHash = inv[p].hash ]_vars

\* The ignoreCache method was invoked again while its fingerprint had a calls
\* row, and resolved: the operation ran a second time, the fingerprint has one
\* row and the content row counts two saves.
C35_Witness ==
  /\ Quiet /\ nCalls = 2
  /\ last.kind = "memo" /\ last.ignoreCache /\ last.ret.status = "ok"
  /\ execs[last.argsHash] = 2
  /\ Cardinality(SelectCalls(last.argsHash)) = 1
  /\ CountOf(content, last.hash) = 2


\* The calls rows with last_accessed blanked: what a hit must leave alone.
ExceptLastAccessed(rows) == { [r EXCEPT !.lastAccessed = 0] : r \in rows }

\* The hit that settled last failed to load its content.
LastHitFailed ==
  /\ last.kind = "memo" /\ last.hit
  /\ last.ret.status = "threw"
  /\ last.ret.error \in {"ContentNotFound", "ContentMissing", "ENOENT"}

\* C36: a hit refreshes last_accessed of its row in the step before its load
\* starts, so the row of a hit that then failed to load carries the time of
\* that hit; and no step of a hit, failed or not, changes a content row, a
\* file or any column of a calls row other than last_accessed.
C36_FailedHitTouchesLastAccessed ==
  /\ []((Quiet /\ LastHitFailed) =>
          /\ SelectCalls(last.argsHash) # {}
          /\ \A r \in SelectCalls(last.argsHash) : r.lastAccessed = last.startTime)
  /\ [][ \A p \in Procs :
           (inv[p].kind = "memo" /\ inv[p].hit /\ pc'[p] # pc[p]) =>
             /\ content' = content /\ files' = files /\ execs' = execs
             /\ ExceptLastAccessed(calls') = ExceptLastAccessed(calls)
             /\ \A r \in calls : r.argsHash # inv[p].argsHash => r \in calls'
             /\ pc[p] = "hitUpdate" =>
                  /\ pc'[p] = "loadSelect"
                  /\ \A r \in calls' : r.argsHash = inv[p].argsHash => r.lastAccessed = clock
             /\ pc[p] # "hitUpdate" => calls' = calls ]_vars

\* A hit made after time had passed rejected because the content file was
\* gone: its row's last_accessed is the time of the hit, later than
\* created_at, and the operation ran only for the miss.
C36_Witness ==
  /\ Quiet /\ LastHitFailed
  /\ last.ret.error = "ContentMissing"
  /\ execs[last.argsHash] = 1
  /\ \E r \in SelectCalls(last.argsHash) :
       r.createdAt < r.lastAccessed /\ r.lastAccessed = last.startTime

\* ------------------------------------------------- downloadVideoWithYtDlp
\* services/yt-dlp.ts. The executor of the promise runs at once: it spawns
\* yt-dlp, arms the timeout and attaches the listeners; each event of the
\* subprocess then runs its listener to the end.

\* The largest video the download keeps, in bytes.
MAX_SIZE_BYTES == 500 * 1024 * 1024

\* stdout data events of one download.
MaxChunks == 3

Null == [type |-> "null", val |-> <<>>]

\* The codes a close event carries: the exit code, or null when a signal
\* ended the process.
ExitCodes == {Num(0), Num(1), Null}

\* The stdout chunks: mark stands for the chunk's bytes, length is
\* chunk.length. Two chunks of half the limit reach the limit exactly.
Chunks ==
  { [mark |-> b, length |-> n] :
      b \in {<<1>>, <<2>>}, n \in {MAX_SIZE_BYTES \div 2, MAX_SIZE_BYTES \div 2 + 1} }

RECURSIVE BufferConcat(_)
\* Buffer.concat(chunks): the chunks' bytes one after the other.
BufferConcat(cs) ==
  IF cs = <<>> THEN [mark |-> <<>>, length |-> 0]
  ELSE LET rest == BufferConcat(Tail(cs))
       IN [mark |-> Head(cs).mark \o rest.mark, length |-> Head(cs).length + rest.length]

\* resolve(v) and reject(e) of `new Promise((resolve, reject) => ...)`: the
\* first call settles the promise, every later call does nothing.
Resolve(d, v) ==
  IF d.promise.state = "pending"
  THEN [d EXCEPT !.promise = [state |-> "fulfilled", value |-> v, reason |-> "none"],
                 !.settles = @ + 1]
  ELSE d

Reject(d, why) ==
  IF d.promise.state = "pending"
  THEN [d EXCEPT !.promise = [state |-> "rejected", value |-> <<>>, reason |-> why],
                 !.settles = @ + 1]
  ELSE d

\* `await ensureYtDlp()` rejects (no binary for the platform, the download of
\* the binary failed): the call rejects before a process is spawned.
DlEnsureFails ==
  /\ dl.st = "none"
  /\ dl' = Reject([dl EXCEPT !.st = "done"], "ensure")
  /\ UNCHANGED <<coreVars, scraper>>

\* The executor: spawn, setTimeout, the listeners.
DlSpawn ==
  /\ dl.st = "none"
  /\ dl' = [dl EXCEPT !.st = "running", !.timer = TRUE]
  /\ UNCHANGED <<coreVars, scraper>>

\* stdout "data": the chunk is counted, then kept unless the total exceeds
\* the limit.
DlData(c) ==
  /\ dl.st = "running" /\ ~dl.closed
  /\ Len(dl.arrived) < MaxChunks
  /\ LET d1 == [dl EXCEPT !.arrived = Append(@, c), !.totalSize = @ + c.length]
     IN dl' = IF d1.totalSize > MAX_SIZE_BYTES
              THEN Reject([d1 EXCEPT !.killed = TRUE, !.timer = FALSE, !.exceeded = TRUE],
                          "size")
              ELSE [d1 EXCEPT !.chunks = Append(@, c)]
  /\ UNCHANGED <<coreVars, scraper>>

\* The process's "error" event.
DlError ==
  /\ dl.st = "running" /\ ~dl.errored
  /\ dl' = Reject([dl EXCEPT !.timer = FALSE, !.errored = TRUE], "error")
  /\ UNCHANGED <<coreVars, scraper>>

\* A faulty variant of DlCloseResult: the exit code is not looked at.
DlCloseResultIgnoresCode(d, code) ==
  LET d1 == [d EXCEPT !.timer = FALSE, !.closed = TRUE, !.closeCode = code]
  IN Resolve(d1, BufferConcat(d1.chunks))

\* The "close" listener run on download d with exit code `code`.
DlCloseResult(d, code) ==
  LET d1 == [d EXCEPT !.timer = FALSE, !.closed = TRUE, !.closeCode = code]
  IN IF code # Num(0)
     THEN Reject(d1, "exit")
     ELSE Resolve(d1, BufferConcat(d1.chunks))

\* The process's "close" event: once, after its stdout has ended. A process
\* that was killed may have exited with any code before the signal arrived.
DlClose(code) ==
  /\ dl.st = "running" /\ ~dl.closed
  /\ dl' = DlCloseResult(dl, code)
  /\ UNCHANGED <<coreVars, scraper>>

\* The timeout fires, five minutes after the spawn, unless it was cleared.
DlTimeout ==
  /\ dl.st = "running" /\ dl.timer
  /\ dl' = Reject([dl EXCEPT !.timer = FALSE, !.killed = TRUE, !.timedOut = TRUE], "timeout")
  /\ UNCHANGED <<coreVars, scraper>>

NextDownload ==
  \/ DlEnsureFails
  \/ DlSpawn
  \/ \E c \in Chunks : DlData(c)
  \/ DlError
  \/ \E code \in ExitCodes : DlClose(code)
  \/ DlTimeout

\* One download, its subprocess emitting its events in any order; a timeout
\* that is armed fires unless it is cleared first.
SpecDownload == InitSeq /\ [][NextDownload]_vars /\ WF_vars(DlTimeout)

\* The download's promise has settled.
DlSettled == dl.promise.state # "pending"

\* C37: the promise of downloadVideoWithYtDlp changes its state once and no
\* more, and does so in every run of the subprocess: it is fulfilled only
\* after a close with exit code 0 that came with the timeout not fired and
\* the size limit never exceeded, and then with the concatenation of every
\* chunk that arrived, in order; an error, a timeout, an exceeded limit or a
\* close leaves it settled; a close with code 0 on a promise that is still
\* pending fulfils it, and no event changes a promise that has settled.
C37_SettlesOnce ==
  /\ [](/\ dl.settles <= 1
        /\ DlSettled <=> dl.settles = 1
        /\ dl.promise.state = "fulfilled" =>
             /\ dl.closed /\ dl.closeCode = Num(0)
             /\ ~dl.timedOut /\ ~dl.exceeded
             /\ dl.totalSize <= MAX_SIZE_BYTES
             /\ dl.promise.value = BufferConcat(dl.arrived)
        /\ (dl.closed \/ dl.timedOut \/ dl.exceeded \/ dl.errored) => DlSettled
        /\ (DlSettled /\ ~(dl.closeCode = Num(0) /\ ~dl.timedOut /\ ~dl.exceeded)) =>
             dl.promise.state = "rejected")
  /\ [][ /\ DlSettled => dl'.promise = dl.promise
         /\ (~DlSettled /\ ~dl.closed /\ dl'.closed /\ dl'.closeCode = Num(0)) =>
              dl'.promise.state = "fulfilled" ]_vars
  /\ (dl.st # "none") ~> DlSettled

\* The timeout fired after two chunks had arrived and rejected the download;
\* the process then closed with exit code 0, and the download stays rejected.
C37_Witness ==
  /\ dl.timedOut /\ dl.closed /\ dl.closeCode = Num(0)
  /\ Len(dl.chunks) = 2
  /\ dl.promise.state = "rejected" /\ dl.promise.reason = "timeout"

\* ------------------------------------------------------------ DOM scrapers
\* src/reddit.ts and src/twitter.ts: an instance polls the page with an
\* interval timer, keeps what it found in a map and in a localforage store.
\* The constructor, clear() and [Symbol.dispose]() are the same in the two
\* classes; Reddit has three maps and three polling methods where Twitter has
\* one, and the model has one.

\* clear() calls made on one instance.
MaxClears == 2

\* The keys of the elements the polling callback finds on the page
\* (querySelectorAll), in document order.
PageKeys == <<"k1", "k2">>

\* The first element from position i on whose key the map does not have; 0
\* when it has them all.
NextNew(cache, i) ==
  LET js == { j \in i..Len(PageKeys) : PageKeys[j] \notin cache }
  IN IF js = {} THEN 0 ELSE CHOOSE j \in js : \A k \in js : j <= k

\* The loop of a polling method from element i on, up to its next await: the
\* elements the map has are skipped, the first new one is set in the map and
\* the loop waits for `await this.#store.setItem(key, value)`.
ScanFrom(s, i) ==
  LET j == NextNew(s.cache, i)
  IN IF j = 0 THEN [s EXCEPT !.scan = 0]
     ELSE [s EXCEPT !.cache = @ \cup {PageKeys[j]}, !.scan = j]

\* setInterval(...) assigned to this.#timer: a new timer runs and its handle
\* is stored, whatever handle was stored before.
SetTimer(s) ==
  [s EXCEPT !.made = @ + 1, !.timer = s.made + 1, !.active = @ \cup {s.made + 1}]

\* if (this.#timer) { clearInterval(this.#timer); this.#timer = null; }
ClearTimer(s) ==
  IF s.timer # 0 THEN [s EXCEPT !.active = @ \ {s.timer}, !.timer = 0] ELSE s

\* new Reddit() / new Twitter()
Construct ==
  /\ ~scraper.constructed
  /\ scraper' = SetTimer([scraper EXCEPT !.constructed = TRUE])
  /\ UNCHANGED <<coreVars, dl>>

\* A running interval timer fires: the polling method starts its loop. One
\* run of the loop is in flight at a time.
ScraperTick(h) ==
  /\ h \in scraper.active
  /\ scraper.scan = 0
  /\ scraper' = ScanFrom(scraper, 1)
  /\ UNCHANGED <<coreVars, dl>>

\* store.setItem resolves: the item is in the store and the loop goes on with
\* the next element.
ScanResume ==
  /\ scraper.scan # 0
  /\ scraper' = ScanFrom([scraper EXCEPT !.store = @ \cup {PageKeys[scraper.scan]}],
                         scraper.scan + 1)
  /\ UNCHANGED <<coreVars, dl>>

\* clear() up to `await this.#store.clear()`. No method is called on an
\* instance that was disposed.
ClearStart ==
  /\ scraper.constructed /\ ~scraper.disposed
  /\ scraper.clearsStarted < MaxClears
  /\ scraper' = [ClearTimer(scraper) EXCEPT !.cache = {},
                                            !.clearsStarted = @ + 1,
                                            !.clearsAwaiting = @ + 1]
  /\ UNCHANGED <<coreVars, dl>>

\* store.clear() resolves: the store is empty, and clear() sets a new timer.
ClearResume ==
  /\ scraper.clearsAwaiting > 0
  /\ scraper' = SetTimer([scraper EXCEPT !.store = {}, !.clearsAwaiting = @ - 1])
  /\ UNCHANGED <<coreVars, dl>>

\* store.clear() rejects: clear() rejects where it stands.
ClearStoreFails ==
  /\ scraper.clearsAwaiting > 0
  /\ scraper' = [scraper EXCEPT !.clearsAwaiting = @ - 1]
  /\ UNCHANGED <<coreVars, dl>>

\* [Symbol.dispose]()
Dispose ==
  /\ scraper.constructed /\ ~scraper.disposed
  /\ scraper' = [ClearTimer(scraper) EXCEPT !.cache = {}, !.disposed = TRUE]
  /\ UNCHANGED <<coreVars, dl>>

NextScraper ==
  \/ Construct
  \/ \E h \in 1..(MaxClears + 1) : ScraperTick(h)
  \/ ScanResume
  \/ ClearStart
  \/ ClearResume
  \/ ClearStoreFails
  \/ Dispose

\* One scraper instance: its constructor, then timer ticks, clear() calls
\* that may overlap, and dispose, in any order.
SpecScraper == InitSeq /\ [][NextScraper]_vars

\* C38: at most one interval timer of the instance is running, and a timer
\* that is running has its handle stored in #timer. (Violated: of two clear()
\* calls that both stand at the await, each sets a timer when it resumes, and
\* the second assignment drops the handle of the first timer.)
C38_OneStoredTimer ==
  /\ Cardinality(scraper.active) <= 1
  /\ \A h \in scraper.active : h = scraper.timer

\* No call of the disposed instance is in flight.
NothingPending == scraper.clearsAwaiting = 0 /\ scraper.scan = 0

\* C39: once the instance is disposed and no clear() or polling run is in
\* flight, no interval timer is running and the map is empty. (Violated: a
\* clear() that stood at the await when dispose ran sets a new timer when it
\* resumes; a polling loop that stood at its await sets the next element's
\* key in the map.)
C39_DisposedIsQuiet ==
  (scraper.disposed /\ NothingPending) => (scraper.active = {} /\ scraper.cache = {})
====
